---------------------------- MODULE Spec2Model ----------------------------
(***************************************************************************)
(* A model of the query-building layer of geoss_search: the Aggregation    *)
(* spec and the Query / SemanticSearch / ExactSearch builders of           *)
(* geoss_search/elastic.py, as they are driven by the handlers of          *)
(* geoss_search/api/routers/search.py; and of the response normalizer of   *)
(* that file, _parseElasticResponse with _getFeatures. Around them: the    *)
(* validators of QueryModel (schemata/query.py), search requests handled   *)
(* together and interleaved at the await of exec(), the group cache of     *)
(* load_parquet (cli.py), the add-ontology requests of                     *)
(* api/routers/ontology.py, and the ingest job of api/internal/admin.py    *)
(* and tasks.py.                                                           *)
(*                                                                         *)
(* Python values are modelled as tagged tuples, the tag first, so that any *)
(* two values can be compared:                                             *)
(*   None          <<"None">>                                              *)
(*   a string      <<"str", s>>, or <<"chars", its characters>> where the  *)
(*                 code reads or writes the characters                     *)
(*   a number      <<"num", n>>                                            *)
(*   a list        <<"list", sequence of values>>                          *)
(*   a dict        <<"dict", function from its keys to values>>            *)
(*   a vector      <<"vec", text>>   (what predict(text) returns)          *)
(*   an alias      <<"ref", attribute>>                                    *)
(*   a decimal     <<"dec", m, places>>   (m * 10^-places)                 *)
(*   a geometry    <<"geom", kind, coordinates>>                           *)
(*   a tuple       <<"tuple", sequence of values>>                         *)
(*   a float       a decimal, <<"nan">> or <<"inf", sign>>                 *)
(*   an exception  <<"raise", its class>>, as the value of the expression  *)
(*                 that raised it                                          *)
(* A key a dict does not have is a key outside the function's domain.      *)
(* An alias stands for the very object held by an attribute of the builder *)
(* (self.filter_, self.aggregations): the payload stores these objects, not*)
(* copies, so what the payload shows follows the later mutations of them.  *)
(* The builder is a record of its attributes, and each method an operator  *)
(* from the builder before the call to the builder after it.               *)
(***************************************************************************)
EXTENDS Integers, Sequences, FiniteSets, TLC

VARIABLES
    handler,        \* the builder object (a Query, ExactSearch or SemanticSearch)
    agg,            \* an Aggregation object: [aggs, agg_names]
    call,           \* the last call made, with its arguments
    raised,         \* the exception the last call raised, or "none"
    returned,       \* what the last call returned, as its caller reads it
    tasks,          \* the requests and jobs in progress: each one's position
                    \* and local variables
    heap,           \* the objects made by the requests, by their identity
    engine          \* the collaborators: the calls made to them, in order,
                    \* and the documents the engine holds

vars == <<handler, agg, call, raised, returned, tasks, heap, engine>>

-----------------------------------------------------------------------------
(* Values *)

None == <<"None">>

Str(s) == <<"str", s>>

Num(n) == <<"num", n>>

List(seq) == <<"list", seq>>

Dict(f) == <<"dict", f>>

Ref(attr) == <<"ref", attr>>

EmptyDict == <<>>

\* d[k] = v on a dict held as a function: the key is added or overwritten.
SetItem(d, k, v) == (k :> v) @@ d

\* dict.update(other): the keys of other are added or overwritten.
Update(d, other) == other @@ d

Keys(value) == DOMAIN value[2]

Get(value, k) == value[2][k]

Has(value, k) == value[1] = "dict" /\ k \in DOMAIN value[2]

-----------------------------------------------------------------------------
(* class Aggregation *)

NewAggregation == [aggs |-> <<>>, agg_names |-> <<>>]

\* The entry add() builds: {agg_name: {agg_type: {"field": field}}}, with
\* "size" beside "field" when a size is given.
AggEntry(agg_name, agg_type, field, size) ==
    LET inner == IF size # None
                 THEN SetItem(("field" :> Str(field)), "size", size)
                 ELSE ("field" :> Str(field))
    IN  Dict(agg_name :> Dict(agg_type :> Dict(inner)))

\* add() without its check of agg_names.
AddRaises_Never(a, agg_name) == FALSE

AddRaises(a, agg_name) ==
    \E i \in DOMAIN a.agg_names : a.agg_names[i] = agg_name

\* Aggregation.add on an object a, when it does not raise.
Add(a, agg_name, agg_type, field, size) ==
    [aggs      |-> Append(a.aggs, AggEntry(agg_name, agg_type, field, size)),
     agg_names |-> Append(a.agg_names, agg_name)]

\* One pass of to_dict's loop body for index i, aggs being the tree so far.
ToDictStep(a, i, aggs) ==
    LET entry    == a.aggs[i]
        agg_name == a.agg_names[i]
    IN  IF aggs # None
        THEN Dict(agg_name :> Dict(SetItem(Get(entry, agg_name)[2], "aggs", aggs)))
        ELSE entry

\* to_dict's loop: for i in range(len(self.aggs), 0, -1), from index i down.
RECURSIVE ToDictLoop(_, _, _)
ToDictLoop(a, i, aggs) ==
    IF i = 0 THEN aggs ELSE ToDictLoop(a, i - 1, ToDictStep(a, i, aggs))

\* to_dict with its loop run upwards, for i in range(1, len(self.aggs) + 1).
RECURSIVE ToDictLoopUp(_, _, _)
ToDictLoopUp(a, i, aggs) ==
    IF i > Len(a.aggs) THEN aggs ELSE ToDictLoopUp(a, i + 1, ToDictStep(a, i, aggs))

to_dict_Upwards(a) == ToDictLoopUp(a, 1, None)

to_dict(a) == ToDictLoop(a, Len(a.aggs), None)

-----------------------------------------------------------------------------
(* datetime.isoformat *)

\* A datetime is <<"datetime", [year, month, day]>>, at midnight and naive;
\* the string isoformat() returns is held as its characters, <<"chars", seq>>.
datetime(y, m, d) == <<"datetime", [year |-> y, month |-> m, day |-> d]>>

Digit(d) == <<"0", "1", "2", "3", "4", "5", "6", "7", "8", "9">>[d + 1]

\* The number a string of digits writes.
DigitValue(c) == CHOOSE d \in 0 .. 9 : Digit(d) = c

Number(chars) ==
    LET RECURSIVE Value(_)
        Value(n) == IF n = 0 THEN 0 ELSE 10 * Value(n - 1) + DigitValue(chars[n])
    IN  Value(Len(chars))

Pad2(n) == <<Digit((n \div 10) % 10), Digit(n % 10)>>

Pad4(n) == Pad2(n \div 100) \o Pad2(n % 100)

\* YYYY-MM-DDT00:00:00
isoformat(dt) ==
    <<"chars", Pad4(dt[2].year) \o <<"-">> \o Pad2(dt[2].month) \o <<"-">>
               \o Pad2(dt[2].day) \o <<"T", "0", "0", ":", "0", "0", ":", "0", "0">> >>

-----------------------------------------------------------------------------
(* class Query: the clauses its setters build *)

\* The predicates dict with contains given the engine's relation of that name.
predicates_Contains ==
    ("contains" :> "CONTAINS") @@ ("overlaps" :> "INTERSECTS") @@ ("disjoint" :> "DISJOINT")

\* The predicates dict of bbox().
predicates == ("contains" :> "WITHIN") @@ ("overlaps" :> "INTERSECTS")
              @@ ("disjoint" :> "DISJOINT")

\* predicates[predicate] raises KeyError for a key the dict does not have.
BboxRaises(predicate) == predicate \notin DOMAIN predicates

\* The filter bbox() builds from bbox = <<xmin, ymin, xmax, ymax>>.
BboxFilter(bbox, predicate) ==
    LET xmin == bbox[1]
        ymin == bbox[2]
        xmax == bbox[3]
        ymax == bbox[4]
    IN  Dict("geo_shape" :> Dict("_geom" :> Dict(
            ("shape" :> Dict(
                ("type" :> Str("envelope")) @@
                ("coordinates" :> List(<<List(<<Num(xmin), Num(ymax)>>),
                                         List(<<Num(xmax), Num(ymin)>>)>>))))
            @@ ("relation" :> Str(predicates[predicate])))))

\* between() as a containment test: the bounds put on the other ends.
BetweenFilters_Containment(from_, to_) ==
    (IF from_ # None
     THEN <<Dict("range" :> Dict("when.from" :> Dict("gte" :> isoformat(from_))))>>
     ELSE <<>>)
    \o
    (IF to_ # None
     THEN <<Dict("range" :> Dict("when.to" :> Dict("lte" :> isoformat(to_))))>>
     ELSE <<>>)

\* The filters between() appends, in order.
BetweenFilters(from_, to_) ==
    (IF from_ # None
     THEN <<Dict("range" :> Dict("when.to" :> Dict("gte" :> isoformat(from_))))>>
     ELSE <<>>)
    \o
    (IF to_ # None
     THEN <<Dict("range" :> Dict("when.from" :> Dict("lte" :> isoformat(to_))))>>
     ELSE <<>>)

\* isinstance(value, str): a string is held whole or as its characters.
IsStr(value) == value[1] \in {"str", "chars"}

\* The filter filter() builds: isinstance(value, str) decides the key.
FilterClause(field, value) ==
    LET filter_key == IF IsStr(value) THEN "term" ELSE "terms"
    IN  Dict(filter_key :> Dict(field :> value))

-----------------------------------------------------------------------------
(* class Query *)

\* Query.__init__, for the class cls: "base", "exact" or "semantic".
NewQuery(cls) ==
    [cls          |-> cls,
     query_       |-> None,
     min_score    |-> None,
     page_        |-> 1,
     records      |-> None,
     filter_      |-> <<>>,
     aggregations |-> EmptyDict,
     custom_      |-> <<>>,
     _payload     |-> EmptyDict]

\* Query.__getattr__: any other name, called with a body.
custom(b, name, body) == [b EXCEPT !.custom_ = Append(@, <<name, body>>)]

query(b, q) == [b EXCEPT !.query_ = q]

minScore(b, score) == [b EXCEPT !.min_score = score]

page(b, p) == [b EXCEPT !.page_ = p]

recordsPerPage(b, recs) == [b EXCEPT !.records = recs]

\* bbox(), when predicates[predicate] does not raise.
bbox(b, box, predicate) ==
    [b EXCEPT !.filter_ = Append(@, BboxFilter(box, predicate))]

between(b, from_, to_) ==
    [b EXCEPT !.filter_ = @ \o BetweenFilters(from_, to_)]

\* filter() putting its clause at the head of the list.
filter_Prepend(b, field, value) ==
    [b EXCEPT !.filter_ = <<FilterClause(field, value)>> \o @]

filter(b, field, value) ==
    [b EXCEPT !.filter_ = Append(@, FilterClause(field, value))]

\* aggs() called with one Aggregation object a.
aggs(b, a) ==
    IF to_dict(a) # None
    THEN [b EXCEPT !.aggregations = Update(@, to_dict(a)[2])]
    ELSE b

\* for function, body in self.custom_: payload[function] = body
RECURSIVE CustomLoop(_, _, _)
CustomLoop(payload, custom_, i) ==
    IF i > Len(custom_)
    THEN payload
    ELSE CustomLoop(SetItem(payload, custom_[i][1], custom_[i][2]), custom_, i + 1)

\* if self.min_score is not None: payload["min_score"] = self.min_score
ParseMinScore(payload, b) ==
    IF b.min_score # None THEN SetItem(payload, "min_score", b.min_score) ELSE payload

\* if self.query_ is not None: payload["query"] = self.query_
ParseQuery(payload, b) ==
    IF b.query_ # None THEN SetItem(payload, "query", b.query_) ELSE payload

\* The paging with from counted from page 0.
ParsePaging_PageZero(payload, b) ==
    IF b.records # None
    THEN SetItem(SetItem(payload, "from", Num(b.records[2] * b.page_)), "size", b.records)
    ELSE payload

\* if self.records is not None: payload["from"] = ...; payload["size"] = ...
ParsePaging(payload, b) ==
    IF b.records # None
    THEN SetItem(SetItem(payload, "from", Num(b.records[2] * (b.page_ - 1))),
                 "size", b.records)
    ELSE payload

\* The aggregations written under the engine's other name for them.
ParseAggs_LongKey(payload, b) ==
    IF Cardinality(DOMAIN b.aggregations) > 0
    THEN SetItem(payload, "aggregations", Ref("aggregations"))
    ELSE payload

\* if len(self.aggregations) > 0: payload['aggs'] = self.aggregations
ParseAggs(payload, b) ==
    IF Cardinality(DOMAIN b.aggregations) > 0
    THEN SetItem(payload, "aggs", Ref("aggregations"))
    ELSE payload

\* Query.parse: the builder after the call, its _payload being what is returned.
QueryParse(b) ==
    LET p1 == ParseMinScore(b._payload, b)
        p2 == ParseQuery(p1, b)
        p3 == ParsePaging(p2, b)
        p4 == CustomLoop(p3, b.custom_, 1)
        p5 == ParseAggs(p4, b)
    IN  [b EXCEPT !._payload = p5]

-----------------------------------------------------------------------------
(* class SemanticSearch *)

\* The embedding collaborator: one vector per text.
predict(text) == <<"vec", text[2]>>

\* The knn entry SemanticSearch.parse stores in the payload.
KnnClause(q) ==
    Dict(("field" :> Str("_embedding")) @@
         ("query_vector" :> predict(q)) @@
         ("k" :> Num(10000)) @@
         ("num_candidates" :> Num(10000)) @@
         ("filter" :> Ref("filter_")))

\* SemanticSearch.parse without self.query_ = None.
SemanticParse_KeepsQuery(b) ==
    IF b.query_ # None
    THEN LET b1 == filter(b, "_lang", Str("en"))
             b2 == [b1 EXCEPT !._payload = SetItem(@, "knn", KnnClause(b1.query_))]
         IN  QueryParse(b2)
    ELSE QueryParse(b)

SemanticParse(b) ==
    IF b.query_ # None
    THEN LET b1 == filter(b, "_lang", Str("en"))
             b2 == [b1 EXCEPT !._payload = SetItem(@, "knn", KnnClause(b1.query_))]
             b3 == [b2 EXCEPT !.query_ = None]
         IN  QueryParse(b3)
    ELSE QueryParse(b)

-----------------------------------------------------------------------------
(* class ExactSearch *)

\* The exact query with the filters left out of the bool clause.
ExactQuery_NoFilter(q) ==
    LET match_phrase == Dict(("query" :> q) @@
                             ("slop" :> Num(5)) @@
                             ("analyzer" :> Str("standard")) @@
                             ("zero_terms_query" :> Str("none")))
    IN  Dict("bool" :> Dict(
            ("should" :> List(<<Dict("match_phrase" :> Dict("title" :> match_phrase)),
                                Dict("match_phrase" :> Dict("description" :> match_phrase))>>))
            @@ ("filter" :> List(<<>>))
            @@ ("minimum_should_match" :> Num(1))))

\* The dict ExactSearch.parse stores in self.query_.
ExactQuery(q) ==
    LET match_phrase == Dict(("query" :> q) @@
                             ("slop" :> Num(5)) @@
                             ("analyzer" :> Str("standard")) @@
                             ("zero_terms_query" :> Str("none")))
    IN  Dict("bool" :> Dict(
            ("should" :> List(<<Dict("match_phrase" :> Dict("title" :> match_phrase)),
                                Dict("match_phrase" :> Dict("description" :> match_phrase))>>))
            @@ ("filter" :> Ref("filter_"))
            @@ ("minimum_should_match" :> Num(1))))

ExactParse(b) == QueryParse([b EXCEPT !.query_ = ExactQuery(@)])

-----------------------------------------------------------------------------
(* parse() by the builder's class, and what its caller reads *)

parse(b) ==
    CASE b.cls = "semantic" -> SemanticParse(b)
      [] b.cls = "exact" -> ExactParse(b)
      [] OTHER -> QueryParse(b)

\* A value as its reader sees it: every alias followed to the builder's object.
RECURSIVE Deref(_, _)
Deref(value, b) ==
    CASE value[1] = "ref" ->
            IF value[2] = "filter_" THEN List(b.filter_) ELSE Dict(b.aggregations)
      [] value[1] = "list" ->
            List([i \in DOMAIN value[2] |-> Deref(value[2][i], b)])
      [] value[1] = "dict" ->
            Dict([k \in DOMAIN value[2] |-> Deref(value[2][k], b)])
      [] OTHER -> value

\* The payload of builder b, as read now (returned by parse, sent by exec).
Payload(b) == Deref(Dict(b._payload), b)

\* How many times a query value has been wrapped by ExactSearch.parse.
RECURSIVE Depth(_)
Depth(q) ==
    IF Has(q, "bool")
    THEN 1 + Depth(Get(Get(Get(Get(Get(q, "bool"), "should")[2][1], "match_phrase"),
                           "title"), "query"))
    ELSE 0

-----------------------------------------------------------------------------
(* Bounds and the inputs the calls are made with *)

MaxFilters == 2     \* setters that append to filter_ stop at this length

MaxCustom == 1      \* pass-through options set on one builder

MaxAggs == 2        \* entries added to one Aggregation

MaxDepth == 2       \* parses of one exact builder

MaxPage == 2        \* page numbers 1..MaxPage

Classes == {"base", "exact", "semantic"}

Queries == {Str("flood risk")}

\* minScore, in tenths (0.6 is the default of the search request).
Scores == {Num(6)}

Pages == 1 .. MaxPage

RecordsValues == {Num(10)}

Boxes == {<<-11, 35, 43, 81>>}

Predicates == {"contains", "overlaps", "disjoint", "touches"}

FromTimes == {None, datetime(2019, 5, 1)}

ToTimes == {None, datetime(2019, 3, 1)}

\* (field, value) pairs for filter(): a single string and a list of strings.
FilterArgs == {<<"source.id", Str("agencyA")>>,
               <<"keyword", List(<<Str("hydrology"), Str("risk")>>)>>}

\* The pass-through calls of search(): fields, _source, collapse.
SearchFields == List(<<Str("title"), Str("description"),
                       Str("source.id"), Str("source.title")>>)

SearchCollapse ==
    Dict(("field" :> Str("_group")) @@
         ("inner_hits" :> Dict(("name" :> Str("grouped")) @@
                               ("size" :> Num(10000)) @@
                               ("_source" :> List(<<Str("id"), Str("_geom")>>)))))

\* (name, body) pairs for the pass-through calls of sources().
CustomArgs == {<<"_source", Str("false")>>, <<"size", Num(0)>>}

AggNames == {"source", "source_title", "keyword"}

AggTypes == {"terms", "significant_terms", "cardinality"}

AggSizes == {None, Num(1), Num(50)}

\* The field search() aggregates on under each name.
AggField(agg_name) ==
    CASE agg_name = "source" -> "source.id"
      [] agg_name = "source_title" -> "source.title"
      [] OTHER -> agg_name

Self == <<"self">>

Nothing == <<"nothing">>

-----------------------------------------------------------------------------
(* The calls on an Aggregation object *)

\* agg = Aggregation()
AggregationNew ==
    /\ agg # NewAggregation
    /\ agg' = NewAggregation
    /\ call' = <<"Aggregation">>
    /\ raised' = "none"
    /\ returned' = Nothing
    /\ UNCHANGED <<handler, tasks, heap, engine>>

\* agg.add(agg_name, agg_type, field, size)
AggregationAdd(agg_name, agg_type, field, size) ==
    /\ Len(agg.aggs) < MaxAggs
    /\ call' = <<"add", agg_name, agg_type, field, size>>
    /\ returned' = Nothing
    /\ IF AddRaises(agg, agg_name)
       THEN /\ raised' = "ValueError"
            /\ UNCHANGED agg
       ELSE /\ raised' = "none"
            /\ agg' = Add(agg, agg_name, agg_type, field, size)
    /\ UNCHANGED <<handler, tasks, heap, engine>>

\* agg.to_dict()
AggregationToDict ==
    /\ call' = <<"to_dict">>
    /\ raised' = "none"
    /\ returned' = to_dict(agg)
    /\ UNCHANGED <<handler, agg, tasks, heap, engine>>

-----------------------------------------------------------------------------
(* The calls on a builder *)

\* A setter that raises nothing: the builder is mutated and self returned.
Setter(c, b) ==
    /\ handler' = b
    /\ call' = c
    /\ raised' = "none"
    /\ returned' = Self
    /\ UNCHANGED <<agg, tasks, heap, engine>>

Query(q) == Setter(<<"query", q>>, query(handler, q))

MinScore(score) == Setter(<<"minScore", score>>, minScore(handler, score))

Page(p) == Setter(<<"page", p>>, page(handler, p))

RecordsPerPage(recs) == Setter(<<"recordsPerPage", recs>>, recordsPerPage(handler, recs))

Bbox(box, predicate) ==
    /\ Len(handler.filter_) < MaxFilters
    /\ IF BboxRaises(predicate)
       THEN /\ call' = <<"bbox", box, predicate>>
            /\ raised' = "KeyError"
            /\ returned' = Nothing
            /\ UNCHANGED <<handler, agg, tasks, heap, engine>>
       ELSE Setter(<<"bbox", box, predicate>>, bbox(handler, box, predicate))

Between(from_, to_) ==
    /\ Len(handler.filter_) + Len(BetweenFilters(from_, to_)) <= MaxFilters
    /\ Setter(<<"between", from_, to_>>, between(handler, from_, to_))

Filter(field, value) ==
    /\ Len(handler.filter_) < MaxFilters
    /\ Setter(<<"filter", field, value>>, filter(handler, field, value))

GetAttr(name, body) ==
    /\ Len(handler.custom_) < MaxCustom
    /\ Setter(<<name, body>>, custom(handler, name, body))

Aggs(a) == Setter(<<"aggs", a>>, aggs(handler, a))

Parse ==
    /\ Depth(handler.query_) < MaxDepth
    /\ Len(parse(handler).filter_) <= MaxFilters
    /\ handler' = parse(handler)
    /\ call' = <<"parse">>
    /\ raised' = "none"
    /\ returned' = Payload(parse(handler))
    /\ UNCHANGED <<agg, tasks, heap, engine>>

-----------------------------------------------------------------------------
(* Specifications *)

Init ==
    /\ handler \in {NewQuery(cls) : cls \in Classes}
    /\ agg = NewAggregation
    /\ call = <<"__init__">>
    /\ raised = "none"
    /\ returned = Nothing
    /\ tasks = <<>>
    /\ heap = <<>>
    /\ engine = <<>>

\* An Aggregation object under any sequence of its calls.
NextAggregation ==
    \/ AggregationNew
    \/ \E agg_name \in AggNames, agg_type \in AggTypes, size \in AggSizes :
          AggregationAdd(agg_name, agg_type, AggField(agg_name), size)
    \/ AggregationToDict

SpecAggregation == Init /\ [][NextAggregation]_vars

\* A builder under any sequence of query, bbox, between, filter and parse.
NextFilters ==
    \/ \E q \in Queries : Query(q)
    \/ \E box \in Boxes, predicate \in Predicates : Bbox(box, predicate)
    \/ \E from_ \in FromTimes, to_ \in ToTimes : Between(from_, to_)
    \/ \E fv \in FilterArgs : Filter(fv[1], fv[2])
    \/ Parse

SpecFilters == Init /\ [][NextFilters]_vars

\* The Aggregation object sources() and search() build for the source facet.
SourceAggregation ==
    Add(Add(NewAggregation, "source", "terms", "source.id", Num(50)),
        "source_title", "terms", "source.title", Num(1))

AggregationArgs == {SourceAggregation}

\* A builder under any sequence of its scalar setters, pass-through options,
\* aggs and parse.
NextPaging ==
    \/ \E q \in Queries : Query(q)
    \/ \E score \in Scores : MinScore(score)
    \/ \E p \in Pages : Page(p)
    \/ \E recs \in RecordsValues : RecordsPerPage(recs)
    \/ \E nb \in CustomArgs : GetAttr(nb[1], nb[2])
    \/ \E a \in AggregationArgs : Aggs(a)
    \/ Parse

SpecPaging == Init /\ [][NextPaging]_vars

-----------------------------------------------------------------------------
(* The search handler of api/routers/search.py *)

\* value.split(','), on the characters of value: the pieces between commas.
RECURSIVE SplitLoop(_, _, _, _)
SplitLoop(chars, i, piece, pieces) ==
    IF i > Len(chars)
    THEN Append(pieces, piece)
    ELSE IF chars[i] = ","
         THEN SplitLoop(chars, i + 1, <<>>, Append(pieces, piece))
         ELSE SplitLoop(chars, i + 1, Append(piece, chars[i]), pieces)

split(value) == SplitLoop(value[2], 1, <<>>, <<>>)

\* terms = value.split(','); if len(terms) == 1: terms = terms[0]
FilterTerms(value) ==
    LET terms == split(value)
    IN  IF Len(terms) = 1
        THEN <<"chars", terms[1]>>
        ELSE List([i \in DOMAIN terms |-> <<"chars", terms[i]>>])

\* The dict of the filter loop, in its order: the key and the request parameter.
FilterKeys ==
    <<<<"source.id", "sources">>,
      <<"keyword", "keyword">>,
      <<"format", "format">>,
      <<"online.protocol", "protocol">>,
      <<"origOrgDesc", "organisation_name">>,
      <<"_ontology.ontology", "ontology">>,
      <<"_ontology.concept", "concept">>,
      <<"_ontology.individual", "individual">>,
      <<"_extracted_keyword", "extracted_keyword">>,
      <<"_extracted_filetype", "extracted_filetype">>>>

\* The dict of the facet loop, in its order: the name and the field.
FacetFields ==
    <<<<"keyword", "keyword">>,
      <<"format", "format">>,
      <<"protocol", "online.protocol">>,
      <<"organisation", "origOrgDesc">>,
      <<"source", "source.id">>,
      <<"ontology", "_ontology.ontology">>,
      <<"concept", "_ontology.concept">>,
      <<"individual", "_ontology.individual">>,
      <<"extractedKeyword", "_extracted_keyword">>,
      <<"extractedFiletype", "_extracted_filetype">>>>

\* The filter loop from its i-th key on.
RECURSIVE FilterLoop(_, _, _)
FilterLoop(b, params, i) ==
    IF i > Len(FilterKeys)
    THEN b
    ELSE LET key   == FilterKeys[i][1]
             value == params[FilterKeys[i][2]]
         IN  IF value = None
             THEN FilterLoop(b, params, i + 1)
             ELSE FilterLoop(filter(b, key, FilterTerms(value)), params, i + 1)

\* The facet loop without the source-title aggregation of lines 145-149.
FacetAggregation_NoTitle(name, field, params) ==
    LET agg_type == IF params.terms_significance THEN "significant_terms" ELSE "terms"
    IN  Add(NewAggregation, name, agg_type, field, params.terms_size)

\* The Aggregation object one pass of the facet loop builds.
FacetAggregation(name, field, params) ==
    LET agg_type == IF params.terms_significance THEN "significant_terms" ELSE "terms"
        a == Add(NewAggregation, name, agg_type, field, params.terms_size)
    IN  IF name = "source"
        THEN Add(a, "source_title", "terms", "source.title", Num(1))
        ELSE a

\* The facet loop from its i-th name on.
RECURSIVE FacetLoop(_, _, _)
FacetLoop(b, params, i) ==
    IF i > Len(FacetFields)
    THEN b
    ELSE FacetLoop(aggs(b, FacetAggregation(FacetFields[i][1], FacetFields[i][2], params)),
                   params, i + 1)

\* Lines 93-97: the class of the builder search() makes.
SearchClass(params) ==
    IF params.query # None
    THEN (IF params.query_method = "semantic" THEN "semantic" ELSE "exact")
    ELSE "base"

\* Lines 95-153: the calls search() makes on the builder b it has made.
SearchChain(b, params) ==
    LET h0 == IF params.query # None THEN query(b, params.query) ELSE b
        h1 == minScore(recordsPerPage(page(h0, params.page), params.records_per_page),
                       params.min_score)
        h2 == custom(custom(custom(h1, "fields", SearchFields), "_source", Str("false")),
                     "collapse", SearchCollapse)
        h3 == IF params.bbox # None
              THEN bbox(h2, params.bbox[2], params.spatial_predicate)
              ELSE h2
        h4 == IF params.time_start # None \/ params.time_end # None
              THEN between(h3, params.time_start, params.time_end)
              ELSE h3
        h5 == FilterLoop(h4, params, 1)
        h6 == FacetLoop(h5, params, 1)
    IN  aggs(h6, Add(NewAggregation, "group_number", "cardinality", "_group", None))

\* The builder search() has made when it calls exec().
SearchHandler(params) == SearchChain(NewQuery(SearchClass(params)), params)

\* The request parameters search() is called with, as validation leaves them.
SearchParams ==
    [query              : {None} \cup Queries,
     query_method       : {"semantic", "exact"},
     min_score          : Scores,
     page               : Pages,
     records_per_page   : RecordsValues,
     bbox               : {None} \cup {List(box) : box \in Boxes},
     spatial_predicate  : DOMAIN predicates,
     time_start         : FromTimes,
     time_end           : ToTimes,
     sources            : {None, <<"chars", <<"a", "g", "e", "n", "c", "y", "A">>>>},
     keyword            : {None, <<"chars", <<"h", "y", "d", "r", "o", "l", "o", "g", "y", ",", "r", "i", "s", "k">>>>},
     format             : {None},
     protocol           : {None},
     organisation_name  : {None},
     ontology           : {None},
     concept            : {None},
     individual         : {None},
     extracted_keyword  : {None},
     extracted_filetype : {None},
     terms_size         : {Num(50)},
     terms_significance : BOOLEAN]

\* GET /search: the builder is made from the request and exec() sends its
\* payload to the engine. A behaviour follows one request: the builder is
\* made anew for each, and nothing of it outlives the request.
Search(params) ==
    /\ call = <<"__init__">>
    /\ handler' = parse(SearchHandler(params))
    /\ call' = <<"search", params>>
    /\ raised' = "none"
    /\ returned' = Payload(parse(SearchHandler(params)))
    /\ UNCHANGED <<agg, tasks, heap, engine>>

NextSearch == \E params \in SearchParams : Search(params)

SpecSearch == Init /\ [][NextSearch]_vars

-----------------------------------------------------------------------------
(* The response normalizer of api/routers/search.py *)

\* Further values: a decimal number m * 10^-places, written without trailing
\* zeros; a geometry object of pygeos; and the outcome of an expression that
\* raised, which every expression built on it yields in turn.
Dec(m, places) == <<"dec", m, places>>

Geom(kind, coords) == <<"geom", kind, coords>>

Raise(e) == <<"raise", e>>

IsRaise(value) == value[1] = "raise"

\* value[key], key a string.
Item(value, key) ==
    CASE IsRaise(value)     -> value
      [] value[1] = "dict"  -> IF key \in DOMAIN value[2] THEN value[2][key]
                               ELSE Raise("KeyError")
      [] value[1] = "list"  -> Raise("TypeError")
      [] OTHER              -> Raise("TypeError")

\* value[i], i an index counted from 0. The dicts here have string keys, so
\* an integer is a key of none of them.
At(value, i) ==
    CASE IsRaise(value)     -> value
      [] value[1] = "list"  -> IF i + 1 \in DOMAIN value[2] THEN value[2][i + 1]
                               ELSE Raise("IndexError")
      [] value[1] = "dict"  -> Raise("KeyError")
      [] OTHER              -> Raise("TypeError")

\* value.get(key, default)
GetOr(value, key, default) ==
    CASE IsRaise(value)     -> value
      [] value[1] = "dict"  -> IF key \in DOMAIN value[2] THEN value[2][key]
                               ELSE default
      [] OTHER              -> Raise("AttributeError")

\* len(value)
PyLen(value) ==
    CASE IsRaise(value)     -> value
      [] value[1] = "list"  -> Num(Len(value[2]))
      [] value[1] = "dict"  -> Num(Cardinality(DOMAIN value[2]))
      [] OTHER              -> Raise("TypeError")

\* The first of the values of seq that raised, or the list of them all: a
\* list display or comprehension whose elements are evaluated in order.
RECURSIVE FirstRaise(_, _)
FirstRaise(seq, i) ==
    IF i > Len(seq) THEN List(seq)
    ELSE IF IsRaise(seq[i]) THEN seq[i]
    ELSE FirstRaise(seq, i + 1)

ListOf(seq) == FirstRaise(seq \o <<>>, 1)

\* A dict display {keys[1]: f[keys[1]], ...}, the values evaluated in the
\* order of keys.
DictOf(keys, f) ==
    LET values == ListOf([i \in DOMAIN keys |-> f[keys[i]]])
    IN  IF IsRaise(values) THEN values ELSE Dict(f)

\* pygeos.from_wkt, on the texts met here: a Well-Known-Text string gives its
\* geometry, and anything else raises (malformed text a GEOSException, a
\* value that is no string a TypeError).
from_wkt(text) ==
    CASE IsRaise(text)                      -> text
      [] text = Str("POINT (10.2 48.1)")    ->
            Geom("Point", <<"pos", Dec(102, 1), Dec(481, 1)>>)
      [] text = Str("LINESTRING (0 0, 1 2)") ->
            Geom("LineString", <<"seq", <<<<"pos", Num(0), Num(0)>>,
                                          <<"pos", Num(1), Num(2)>>>>>>)
      [] text[1] = "str"                    -> Raise("GEOSException")
      [] OTHER                              -> Raise("TypeError")

\* The coordinates of a geometry as JSON lists: a position <<"pos", x, y>> is
\* [x, y], and a sequence <<"seq", positions>> the list of its positions.
RECURSIVE Coordinates(_)
Coordinates(c) ==
    IF c[1] = "pos" THEN List(<<c[2], c[3]>>)
    ELSE List([i \in DOMAIN c[2] |-> Coordinates(c[2][i])])

\* json.loads(pygeos.to_geojson(geometry))
to_geojson(geometry) ==
    IF IsRaise(geometry) THEN geometry
    ELSE Dict(("type" :> Str(geometry[2])) @@
              ("coordinates" :> Coordinates(geometry[3])))

\* The try block of _getFeatures: the geometry of the first text of geom, None
\* when geom is empty, and None when anything in the block raised.
TryGeometry(geom) ==
    LET n == PyLen(geom)
        geometry == IF IsRaise(n) THEN n
                    ELSE IF n[2] > 0 THEN to_geojson(from_wkt(At(geom, 0)))
                    ELSE None
    IN  IF IsRaise(geometry) THEN None ELSE geometry

\* _getFeatures with a try block that lets its exception through.
_getFeatures_NoExcept(field) ==
    LET n == PyLen(field[2])
        geometry == IF IsRaise(n) THEN n
                    ELSE IF n[2] > 0 THEN to_geojson(from_wkt(At(field[2], 0)))
                    ELSE None
    IN  IF IsRaise(geometry) THEN geometry
        ELSE IF geometry # None
        THEN Dict(("type" :> Str("Feature")) @@ ("id" :> field[1]) @@
                  ("geometry" :> geometry) @@
                  ("properties" :> Dict("groupId" :> field[3])))
        ELSE Dict(("type" :> Str("Feature")) @@ ("id" :> field[1]) @@
                  ("properties" :> Dict("groupId" :> field[3])))

\* _getFeatures(field), field the tuple (id, geom, group id).
_getFeatures(field) ==
    IF Len(field) = 0 THEN None
    ELSE LET id_      == field[1]
             geom     == field[2]
             group_id == field[3]
             feature  == ("type" :> Str("Feature")) @@ ("id" :> id_)
             geometry == TryGeometry(geom)
             withGeom == IF geometry # None
                         THEN SetItem(feature, "geometry", geometry)
                         ELSE feature
         IN  Dict(SetItem(withGeom, "properties", Dict("groupId" :> group_id)))

-----------------------------------------------------------------------------

\* [... for x in list], values[i] being what is computed for the i-th item
\* of list.
ForEach(list, values) ==
    CASE IsRaise(list)      -> list
      [] list[1] = "list"   -> ListOf(values)
      [] OTHER              -> Raise("TypeError")

\* A tuple display (seq[1], seq[2], ...).
TupleOf(seq) ==
    LET values == ListOf(seq)
    IN  IF IsRaise(values) THEN values ELSE <<"tuple", seq>>

\* math.ceil(a / b) for a >= 0 and b # 0. The division is one of floats,
\* which is exact enough for the ceiling at the sizes of a group count and a
\* page length (at most 100 in size).
ceil(a, b) ==
    IF b > 0 THEN (IF a % b = 0 THEN a \div b ELSE a \div b + 1)
    ELSE 0 - (a \div (0 - b))

\* Line 36 reading the total hit count in place of the group count.
TotalPages_OfHits(response, records_per_page) ==
    LET value == Item(Item(Item(response, "hits"), "total"), "value")
    IN  IF IsRaise(value) THEN value
        ELSE IF records_per_page = 0 THEN Raise("ZeroDivisionError")
        ELSE Num(ceil(value[2], records_per_page))

\* Line 36: the pages the distinct groups fill.
TotalPages(response, records_per_page) ==
    LET value == Item(Item(Item(response, "aggregations"), "group_number"), "value")
    IN  IF IsRaise(value) THEN value
        ELSE IF records_per_page = 0 THEN Raise("ZeroDivisionError")
        ELSE Num(ceil(value[2], records_per_page))

\* hit['inner_hits']['grouped']['hits']
Grouped(hit) == Item(Item(Item(hit, "inner_hits"), "grouped"), "hits")

\* The projection with no default for a field that is absent.
Projection_NoDefault(hit, name) ==
    At(GetOr(Item(hit, "fields"), name, List(<<None>>)), 0)

\* hit['fields'].get(name, [''])[0]
Projection(hit, name) ==
    At(GetOr(Item(hit, "fields"), name, List(<<Str("")>>)), 0)

GroupKeys ==
    <<"groupId", "memberCount", "members", "title", "description",
      "origOrgId", "origOrgDesc", "score">>

\* Lines 38-47: the record of one collapsed hit.
GroupRecord(hit) ==
    DictOf(GroupKeys,
           [k \in {GroupKeys[i] : i \in DOMAIN GroupKeys} |->
              CASE k = "groupId"     -> At(Item(Item(hit, "fields"), "_group"), 0)
                [] k = "memberCount" -> Item(Item(Grouped(hit), "total"), "value")
                [] k = "members"     ->
                     LET members == Item(Grouped(hit), "hits")
                     IN  ForEach(members,
                             [j \in DOMAIN members[2] |->
                                 Item(Item(members[2][j], "_source"), "id")])
                [] k = "title"       -> Projection(hit, "title")
                [] k = "description" -> Projection(hit, "description")
                [] k = "origOrgId"   -> Projection(hit, "source.id")
                [] k = "origOrgDesc" -> Projection(hit, "source.title")
                [] k = "score"       -> Item(hit, "_score")])

Data(response) ==
    LET hits == Item(Item(response, "hits"), "hits")
    IN  ForEach(hits, [h \in DOMAIN hits[2] |-> GroupRecord(hits[2][h])])

\* 10^n
RECURSIVE Pow10(_)
Pow10(n) == IF n = 0 THEN 1 ELSE 10 * Pow10(n - 1)

\* A decimal without its trailing zeros: 0.8300 is 0.83.
RECURSIVE Canon(_)
Canon(x) ==
    IF x[3] > 0 /\ x[2] % 10 = 0 THEN Canon(Dec(x[2] \div 10, x[3] - 1))
    ELSE IF x[3] = 0 THEN Num(x[2])
    ELSE x

\* round(x, 4) for x >= 0: the nearest multiple of 0.0001 (of two equally
\* near, the even one).
round4(x) ==
    CASE IsRaise(x)     -> x
      [] x[1] = "num"   -> x
      [] x[1] = "dec"   ->
            IF x[3] <= 4 THEN x
            ELSE LET unit == Pow10(x[3] - 4)
                     q    == x[2] \div unit
                     r    == x[2] % unit
                     up   == 2 * r > unit \/ (2 * r = unit /\ q % 2 = 1)
                 IN  Canon(Dec(IF up THEN q + 1 ELSE q, 4))
      [] OTHER          -> Raise("TypeError")

\* values.get(key), None when the key is absent.
GetNone(values, key) == GetOr(values, key, None)

\* values['source_title']['buckets'][0]['key']
TitleOf(values) ==
    Item(At(Item(Item(values, "source_title"), "buckets"), 0), "key")

\* values.get('source_title', {}).get('buckets', [{}])[0].get('key')
TitleOrNone(values) ==
    GetNone(At(GetOr(GetOr(values, "source_title", Dict(EmptyDict)),
                     "buckets", List(<<Dict(EmptyDict)>>)), 0), "key")

\* round(values.get('score', 0), 4)
ScoreOf(values) == round4(GetOr(values, "score", Num(0)))

\* Lines 51-57 with the source facet treated as any other facet.
TermRecord_KeyAsTerm(termtype, values, terms_significance) ==
    IF terms_significance
    THEN Dict(("term" :> GetNone(values, "key")) @@
              ("freq" :> GetNone(values, "doc_count")) @@
              ("bgFreq" :> GetNone(values, "bg_count")) @@
              ("score" :> ScoreOf(values)))
    ELSE Dict(("term" :> GetNone(values, "key")) @@
              ("freq" :> GetNone(values, "doc_count")))

\* Lines 51-57: the term record of one bucket of the facet termtype.
TermRecord(termtype, values, terms_significance) ==
    IF terms_significance /\ termtype # "source"
    THEN DictOf(<<"term", "freq", "bgFreq", "score">>,
                ("term" :> GetNone(values, "key")) @@
                ("freq" :> GetNone(values, "doc_count")) @@
                ("bgFreq" :> GetNone(values, "bg_count")) @@
                ("score" :> ScoreOf(values)))
    ELSE IF terms_significance
    THEN DictOf(<<"term", "freq", "bgFreq", "score", "termId">>,
                ("term" :> TitleOf(values)) @@
                ("freq" :> GetNone(values, "doc_count")) @@
                ("bgFreq" :> GetNone(values, "bg_count")) @@
                ("score" :> ScoreOf(values)) @@
                ("termId" :> GetNone(values, "key")))
    ELSE IF termtype # "source"
    THEN DictOf(<<"term", "freq">>,
                ("term" :> GetNone(values, "key")) @@
                ("freq" :> GetNone(values, "doc_count")))
    ELSE DictOf(<<"term", "freq", "termId">>,
                ("term" :> TitleOrNone(values)) @@
                ("freq" :> GetNone(values, "doc_count")) @@
                ("termId" :> GetNone(values, "key")))

\* Lines 50-57: the list under one key of significantTerms.
Facet(termtype, properties, terms_significance) ==
    LET buckets == GetOr(properties, "buckets", List(<<>>))
    IN  ForEach(buckets,
            [i \in DOMAIN buckets[2] |->
                TermRecord(termtype, buckets[2][i], terms_significance)])

\* Lines 49-59: one key for each item of response['aggregations'].
SignificantTerms(response, terms_significance) ==
    LET aggregations == Item(response, "aggregations")
    IN  IF IsRaise(aggregations) THEN aggregations
        ELSE LET f == [termtype \in DOMAIN aggregations[2] |->
                         Facet(termtype, aggregations[2][termtype],
                               terms_significance)]
             IN  IF \E termtype \in DOMAIN f : IsRaise(f[termtype])
                 THEN f[CHOOSE termtype \in DOMAIN f : IsRaise(f[termtype])]
                 ELSE Dict(f)

\* The tuples of line 61 for the first inner hit of a hit only.
GeomsOfHit_FirstOnly(hit) ==
    LET inner_hits == Item(Grouped(hit), "hits")
    IN  ForEach(inner_hits,
            [j \in DOMAIN inner_hits[2] |->
                TupleOf(<<Item(Item(inner_hits[2][1], "_source"), "id"),
                          Item(Item(inner_hits[2][j], "_source"), "_geom"),
                          At(Item(Item(hit, "fields"), "_group"), 0)>>)])

\* Lines 60-64, for one hit: the tuple (id, _geom, group id) of each inner hit.
GeomsOfHit(hit) ==
    LET inner_hits == Item(Grouped(hit), "hits")
    IN  ForEach(inner_hits,
            [j \in DOMAIN inner_hits[2] |->
                TupleOf(<<Item(Item(inner_hits[2][j], "_source"), "id"),
                          Item(Item(inner_hits[2][j], "_source"), "_geom"),
                          At(Item(Item(hit, "fields"), "_group"), 0)>>)])

\* The lists of a sequence of lists, one after another.
RECURSIVE Flatten(_, _)
Flatten(lists, i) ==
    IF i > Len(lists) THEN <<>> ELSE lists[i][2] \o Flatten(lists, i + 1)

\* Lines 60-64: the tuples of all inner hits of all hits, in order.
Geoms(response) ==
    LET hits   == Item(Item(response, "hits"), "hits")
        perHit == ForEach(hits, [h \in DOMAIN hits[2] |-> GeomsOfHit(hits[2][h])])
    IN  IF IsRaise(perHit) THEN perHit ELSE List(Flatten(perHit[2], 1))

\* Line 65
Features(response) ==
    LET geoms == Geoms(response)
    IN  ForEach(geoms, [i \in DOMAIN geoms[2] |-> _getFeatures(geoms[2][i][2])])

ResultKeys ==
    <<"page", "totalPages", "numberOfResults", "data", "significantTerms",
      "geoJson">>

\* _parseElasticResponse(response, page=, records_per_page=,
\* terms_significance=): the normalized result, or what it raised.
_parseElasticResponse(response, kwargs) ==
    LET features == Features(response)
    IN  DictOf(ResultKeys,
            ("page" :> Num(kwargs.page)) @@
            ("totalPages" :> TotalPages(response, kwargs.records_per_page)) @@
            ("numberOfResults" :> Item(Item(Item(response, "hits"), "total"), "value")) @@
            ("data" :> Data(response)) @@
            ("significantTerms" :> SignificantTerms(response, kwargs.terms_significance)) @@
            ("geoJson" :> IF IsRaise(features) THEN features
                          ELSE Dict(("type" :> Str("FeatureCollection")) @@
                                    ("features" :> features))))

\* The normalizer called on the response of one request: search() returns
\* what it returns and lets through what it raises.
ParseElasticResponse(response, kwargs) ==
    /\ call' = <<"_parseElasticResponse", response, kwargs>>
    /\ LET result == _parseElasticResponse(response, kwargs)
       IN  IF IsRaise(result)
           THEN /\ raised' = result[2]
                /\ returned' = Nothing
           ELSE /\ raised' = "none"
                /\ returned' = result
    /\ UNCHANGED <<handler, agg, tasks, heap, engine>>

-----------------------------------------------------------------------------

(* The engine responses the normalizer is called with *)

MaxHits == 2        \* collapsed hits of one response

MaxMembers == 2     \* inner hits listed under one hit

MaxGeoms == 3       \* inner hits of one response, of any shape of geometry

MaxBuckets == 2     \* buckets of one aggregation

SeqsUpTo(S, n) == UNION {[1 .. m -> S] : m \in 0 .. n}

RecordIds ==
    <<"r1", "r2", "r3", "r4", "r5", "r6", "r7", "r8",
      "r9", "r10", "r11", "r12", "r13", "r14", "r15", "r16">>

GroupIds == <<"g1", "g2", "g3", "g4">>

PointText == Str("POINT (10.2 48.1)")

LineText == Str("LINESTRING (0 0, 1 2)")

\* A text cut short, which from_wkt cannot read.
CutText == Str("POINT (10.2")

\* A GeoJSON Point held in the document as an object.
NativePoint ==
    Dict(("type" :> Str("Point")) @@
         ("coordinates" :> List(<<Dec(102, 1), Dec(481, 1)>>)))

\* What a member document holds under _geom: a list of one text, well formed
\* or cut short; an empty list; a native shape object; or nothing at all.
GeomShapes ==
    {List(<<PointText>>), List(<<CutText>>), List(<<>>),
     NativePoint, Nothing}

\* An inner hit: the member document, cut to id and _geom.
InnerHit(id, geom) ==
    Dict("_source" :> Dict(IF geom = Nothing THEN ("id" :> Str(id))
                           ELSE ("id" :> Str(id)) @@ ("_geom" :> geom)))

\* The field projections search() asks for, beside the collapse field.
Projections ==
    ("title" :> List(<<Str("Flood risk map")>>)) @@
    ("description" :> List(<<Str("Areas at risk of flooding")>>)) @@
    ("source.id" :> List(<<Str("agencyA")>>)) @@
    ("source.title" :> List(<<Str("Agency A Full Name")>>))

\* A collapsed hit of group, listing members out of total.
Hit(group, members, total, projected) ==
    Dict(("fields" :> Dict(IF projected
                           THEN ("_group" :> List(<<Str(group)>>)) @@ Projections
                           ELSE ("_group" :> List(<<Str(group)>>)))) @@
         ("_score" :> Dec(91, 2)) @@
         ("inner_hits" :> Dict("grouped" :> Dict("hits" :>
              Dict(("total" :> Dict("value" :> Num(total))) @@
                   ("hits" :> List(members)))))))

Response(hits, total, aggregations) ==
    Dict(("hits" :> Dict(("total" :> Dict("value" :> Num(total))) @@
                         ("hits" :> List(hits)))) @@
         ("aggregations" :> Dict(aggregations)))

GroupNumber(n) == ("group_number" :> Dict("value" :> Num(n)))

\* Responses of up to MaxHits hits, each with up to MaxMembers well-formed
\* members, with or without the projections, its total the listed members
\* or five more.
HitChoices == (0 .. MaxMembers) \X BOOLEAN \X BOOLEAN

WellFormedMembers(h, m) ==
    [j \in 1 .. m |->
        InnerHit(RecordIds[(h - 1) * (MaxMembers + 1) + j],
                 List(<<IF j % 2 = 1 THEN PointText ELSE LineText>>))]

GroupResponses ==
    {Response([h \in DOMAIN c |->
                 Hit(GroupIds[h], WellFormedMembers(h, c[h][1]),
                     IF c[h][3] THEN c[h][1] + 5 ELSE c[h][1], c[h][2])],
              25, GroupNumber(Len(c))) :
        c \in SeqsUpTo(HitChoices, MaxHits)}

\* Responses of two hits that share up to MaxGeoms members of any shape.
GeometryMembers(shapes, first, last) ==
    [j \in 1 .. (last - first + 1) |->
        InnerHit(RecordIds[first + j - 1], shapes[first + j - 1])]

GeometryResponses ==
    {Response(<<Hit("g1", GeometryMembers(sk[1], 1, sk[2]), sk[2], TRUE),
                Hit("g2", GeometryMembers(sk[1], sk[2] + 1, Len(sk[1])),
                    Len(sk[1]) - sk[2], TRUE)>>,
              Len(sk[1]), GroupNumber(2)) :
        sk \in {pair \in SeqsUpTo(GeomShapes, MaxGeoms) \X (0 .. MaxGeoms) :
                   pair[2] <= Len(pair[1])}}

\* Buckets of a terms or significant_terms aggregation.
KeywordBuckets ==
    {Dict(("key" :> Str("hydrology")) @@ ("doc_count" :> Num(7)) @@
          ("bg_count" :> Num(19)) @@ ("score" :> Dec(123456, 6))),
     Dict(("key" :> Str("risk")) @@ ("doc_count" :> Num(3)))}

\* Buckets of the source facet: with all values; without bg_count and score;
\* without the source_title sub-aggregation; and with no bucket in it.
SourceBuckets ==
    {Dict(("key" :> Str("agencyA")) @@ ("doc_count" :> Num(12)) @@
          ("bg_count" :> Num(40)) @@ ("score" :> Dec(83, 2)) @@
          ("source_title" :> Dict("buckets" :>
               List(<<Dict(("key" :> Str("Agency A Full Name")) @@
                           ("doc_count" :> Num(12)))>>)))),
     Dict(("key" :> Str("agencyB")) @@ ("doc_count" :> Num(5)) @@
          ("source_title" :> Dict("buckets" :>
               List(<<Dict(("key" :> Str("Agency B")) @@
                           ("doc_count" :> Num(5)))>>)))),
     Dict(("key" :> Str("agencyC")) @@ ("doc_count" :> Num(2)) @@
          ("bg_count" :> Num(9)) @@ ("score" :> Dec(5, 1))),
     Dict(("key" :> Str("agencyD")) @@ ("doc_count" :> Num(1)) @@
          ("source_title" :> Dict("buckets" :> List(<<>>))))}

\* An aggregation of the response: absent, or with up to MaxBuckets buckets.
BucketLists(S) == {None} \cup {List(s) : s \in SeqsUpTo(S, MaxBuckets)}

GroupCounts == {0, 7, 21}

PageLengths == {3, 10}

FacetAggregations ==
    {(IF ks[1] = None THEN <<>> ELSE ("keyword" :> Dict("buckets" :> ks[1]))) @@
     (IF ks[2] = None THEN <<>> ELSE ("source" :> Dict("buckets" :> ks[2]))) @@
     GroupNumber(ks[3]) :
        ks \in BucketLists(KeywordBuckets) \X BucketLists(SourceBuckets) \X GroupCounts}

FacetResponses ==
    {Response(<<Hit("g1", WellFormedMembers(1, 1), 1, TRUE)>>, 25, aggregations) :
        aggregations \in FacetAggregations}

\* The normalizer on the hits of a response. A behaviour follows one
\* request: one response, normalized once.
NextGroups ==
    /\ call = <<"__init__">>
    /\ \E response \in GroupResponses :
          ParseElasticResponse(response,
              [page |-> 1, records_per_page |-> 10, terms_significance |-> FALSE])

SpecGroups == Init /\ [][NextGroups]_vars

\* The normalizer on the geometries of the members of a response.
NextGeometry ==
    /\ call = <<"__init__">>
    /\ \E response \in GeometryResponses :
          ParseElasticResponse(response,
              [page |-> 1, records_per_page |-> 10, terms_significance |-> FALSE])

SpecGeometry == Init /\ [][NextGeometry]_vars

\* The normalizer on the aggregations of a response.
NextFacets ==
    /\ call = <<"__init__">>
    /\ \E response \in FacetResponses, n \in PageLengths, significance \in BOOLEAN :
          ParseElasticResponse(response,
              [page |-> 1, records_per_page |-> n, terms_significance |-> significance])

SpecFacets == Init /\ [][NextFacets]_vars

-----------------------------------------------------------------------------

(* Search requests in progress: search() and exec() around their await *)

MaxRequests == 2    \* requests in flight together

Requests == 1 .. MaxRequests

\* settings.elastic_index, the index every builder of search() is made with.
elastic_index == Str("geoss")

\* A builder made by a constructor call and kept as the one builder of all
\* requests.
NewHandler_Singleton(h, cls) ==
    IF Len(h) > 0 THEN [heap |-> h, id |-> 1]
    ELSE [heap |-> Append(h, NewQuery(cls)), id |-> 1]

\* SemanticSearch(es=es), ExactSearch(es=es) or ElasticQuery(es=es): a new
\* object, with its own lists and dicts, beside the objects h holds.
NewHandler(h, cls) == [heap |-> Append(h, NewQuery(cls)), id |-> Len(h) + 1]

\* Whether parse() of builder b calls predict().
Embeds(b) == b.cls = "semantic" /\ b.query_ # None

\* exec() issuing es.search() twice.
ExecCalls_Twice(b, payload) ==
    (IF Embeds(b) THEN <<<<"predict", b.query_>>>> ELSE <<>>)
    \o <<<<"search", elastic_index, payload>>, <<"search", elastic_index, payload>>>>

\* exec() issuing es.search() before parse() has called predict().
ExecCalls_SearchFirst(b, payload) ==
    <<<<"search", elastic_index, payload>>>>
    \o (IF Embeds(b) THEN <<<<"predict", b.query_>>>> ELSE <<>>)

\* The calls exec() makes to the collaborators until its await, in order:
\* predict() from within parse(), then the one es.search().
ExecCalls(b, payload) ==
    (IF Embeds(b) THEN <<<<"predict", b.query_>>>> ELSE <<>>)
    \o <<<<"search", elastic_index, payload>>>>

IdleTask ==
    [pc |-> "idle", params |-> Nothing, handler |-> 0, payload |-> Nothing,
     response |-> Nothing, result |-> Nothing, raised |-> "none"]

\* The kwargs search() passes to the normalizer.
Kwargs(params) ==
    [page               |-> params.page,
     records_per_page   |-> params.records_per_page[2],
     terms_significance |-> params.terms_significance]

\* GET /search up to the await of exec(): the builder is made and called
\* (lines 93-153), exec() compiles it, and es.search() is issued. Nothing
\* awaits in between. A predict() that raises (embedded is false) raises out
\* of parse(), exec() and search(), after filter("_lang", "en").
SearchStart(r, params, embedded) ==
    /\ tasks[r].pc = "idle"
    /\ LET made  == NewHandler(heap, SearchClass(params))
           built == SearchChain(made.heap[made.id], params)
       IN  IF Embeds(built) /\ ~embedded
           THEN /\ heap' = [made.heap EXCEPT
                               ![made.id] = filter(built, "_lang", Str("en"))]
                /\ engine' = [engine EXCEPT
                                 ![r] = Append(@, <<"predict", built.query_>>)]
                /\ tasks' = [tasks EXCEPT
                                ![r] = [@ EXCEPT !.pc = "raised",
                                                 !.params = params,
                                                 !.handler = made.id,
                                                 !.raised = "EmbeddingError"]]
           ELSE /\ heap' = [made.heap EXCEPT ![made.id] = parse(built)]
                /\ engine' = [engine EXCEPT
                                 ![r] = @ \o ExecCalls(built, Payload(parse(built)))]
                /\ tasks' = [tasks EXCEPT
                                ![r] = [@ EXCEPT !.pc = "awaiting",
                                                 !.params = params,
                                                 !.handler = made.id,
                                                 !.payload = Payload(parse(built))]]
    /\ UNCHANGED <<handler, agg, call, raised, returned>>

\* The engine answers: exec() returns the response, and search() returns
\* what the normalizer makes of it (line 157), or raises what it raises.
EngineResponds(r, response) ==
    /\ tasks[r].pc = "awaiting"
    /\ engine' = [engine EXCEPT ![r] = Append(@, <<"response", response>>)]
    /\ LET result == _parseElasticResponse(response, Kwargs(tasks[r].params))
       IN  tasks' = [tasks EXCEPT
                        ![r] = IF IsRaise(result)
                               THEN [@ EXCEPT !.pc = "raised",
                                              !.response = response,
                                              !.raised = result[2]]
                               ELSE [@ EXCEPT !.pc = "done",
                                              !.response = response,
                                              !.result = result]]
    /\ UNCHANGED <<handler, agg, call, raised, returned, heap>>

\* The engine call fails: the await raises in exec(), which has no handler
\* for it, and neither has search().
EngineFails(r, error) ==
    /\ tasks[r].pc = "awaiting"
    /\ engine' = [engine EXCEPT ![r] = Append(@, <<"error", error>>)]
    /\ tasks' = [tasks EXCEPT ![r] = [@ EXCEPT !.pc = "raised", !.raised = error]]
    /\ UNCHANGED <<handler, agg, call, raised, returned, heap>>

\* The requests made: semantic with a source filter, exact with keywords,
\* and no query string with a bounding box.
BaseParams ==
    [query              |-> None,
     query_method       |-> "semantic",
     min_score          |-> Num(6),
     page               |-> 1,
     records_per_page   |-> Num(10),
     bbox               |-> None,
     spatial_predicate  |-> "overlaps",
     time_start         |-> None,
     time_end           |-> None,
     sources            |-> None,
     keyword            |-> None,
     format             |-> None,
     protocol           |-> None,
     organisation_name  |-> None,
     ontology           |-> None,
     concept            |-> None,
     individual         |-> None,
     extracted_keyword  |-> None,
     extracted_filetype |-> None,
     terms_size         |-> Num(50),
     terms_significance |-> FALSE]

RequestParams ==
    {[BaseParams EXCEPT !.query = Str("flood risk"),
                        !.sources = <<"chars", <<"a", "g", "e", "n", "c", "y", "A">>>>],
     [BaseParams EXCEPT !.query = Str("flood risk"),
                        !.query_method = "exact",
                        !.keyword = <<"chars", <<"r", "i", "s", "k">>>>],
     [BaseParams EXCEPT !.bbox = List(<<-11, 35, 43, 81>>)]}

EngineResponses ==
    {Response(<<>>, 0, GroupNumber(0)),
     Response(<<Hit("g1", WellFormedMembers(1, 1), 1, TRUE)>>, 1, GroupNumber(1))}

EngineErrors == {"ConnectionError"}

InitRequests ==
    /\ handler = NewQuery("base")
    /\ agg = NewAggregation
    /\ call = <<"__init__">>
    /\ raised = "none"
    /\ returned = Nothing
    /\ tasks = [r \in Requests |-> IdleTask]
    /\ heap = <<>>
    /\ engine = [r \in Requests |-> <<>>]

\* Requests handled together on one event loop, interleaved at the await.
NextRequests ==
    \/ \E r \in Requests, params \in RequestParams, embedded \in BOOLEAN :
          SearchStart(r, params, embedded)
    \/ \E r \in Requests, response \in EngineResponses : EngineResponds(r, response)
    \/ \E r \in Requests, error \in EngineErrors : EngineFails(r, error)

SpecRequests == InitRequests /\ [][NextRequests]_vars

-----------------------------------------------------------------------------

(* Request validation: QueryModel of schemata/query.py *)

MaxCoords == 4      \* comma separated pieces of one bbox string

\* A float is a decimal <<"dec", m, places>>, nan or a signed infinity.
NaN == <<"nan">>

Inf(sign) == <<"inf", sign>>

IsDigit(c) == \E d \in 0 .. 9 : Digit(d) = c

\* float() of a string without a sign: nan, inf, or digits around at most
\* one point (strings with spaces, exponents or underscores are not among
\* the requests made here).
Unsigned(chars) ==
    IF chars = <<"n", "a", "n">> THEN NaN
    ELSE IF chars = <<"i", "n", "f">> THEN Inf(1)
    ELSE LET points == {i \in DOMAIN chars : chars[i] = "."}
             point  == IF points = {} THEN Len(chars) + 1
                       ELSE CHOOSE i \in points : TRUE
             whole  == SubSeq(chars, 1, point - 1)
             frac   == SubSeq(chars, point + 1, Len(chars))
         IN  IF \/ Cardinality(points) > 1
                \/ Len(whole) + Len(frac) = 0
                \/ \E i \in DOMAIN chars : chars[i] # "." /\ ~IsDigit(chars[i])
             THEN Raise("ValueError")
             ELSE Dec(Number(whole \o frac), Len(frac))

Negated(x) ==
    CASE x[1] = "dec" -> Dec(0 - x[2], x[3])
      [] x[1] = "inf" -> Inf(0 - x[2])
      [] OTHER -> x

\* float(coord)
float(chars) ==
    LET signed == chars # <<>> /\ chars[1] \in {"-", "+"}
        value  == Unsigned(IF signed THEN Tail(chars) ELSE chars)
    IN  IF signed /\ chars[1] = "-" /\ ~IsRaise(value) THEN Negated(value)
        ELSE value

\* a < b on floats: every comparison with nan is False.
Less(a, b) ==
    IF a[1] = "nan" \/ b[1] = "nan" THEN FALSE
    ELSE IF a[1] = "inf" THEN a[2] < 0 /\ ~(b[1] = "inf" /\ b[2] < 0)
    ELSE IF b[1] = "inf" THEN b[2] > 0
    ELSE a[2] * Pow10(b[3]) < b[2] * Pow10(a[3])

\* min(a, b) and max(a, b): the first argument unless the second is
\* smaller, or larger.
min(a, b) == IF Less(b, a) THEN b ELSE a

max(a, b) == IF Less(a, b) THEN b ELSE a

\* The validator of bbox: the list of floats it returns, as they were given,
\* or the ValueError it raises.
bboxValidation(text) ==
    IF text = None THEN None
    ELSE LET pieces == split(text)
             coords == [i \in DOMAIN pieces |-> float(pieces[i])]
         IN  IF Len(pieces) # 4 THEN Raise("ValueError")
             ELSE IF \E i \in DOMAIN coords : IsRaise(coords[i])
             THEN Raise("ValueError")
             ELSE LET xmin == min(coords[1], coords[3])
                      xmax == max(coords[1], coords[3])
                      ymin == min(coords[2], coords[4])
                      ymax == max(coords[2], coords[4])
                  IN  IF \/ Less(xmin, Dec(-180, 0))
                         \/ Less(ymin, Dec(-90, 0))
                         \/ Less(Dec(180, 0), xmax)
                         \/ Less(Dec(90, 0), ymax)
                      THEN Raise("ValueError")
                      ELSE List(coords \o <<>>)

\* The validator of records_per_page.
maximumRecordsValidation(v) ==
    IF v = None \/ v[2] <= 100 THEN v ELSE Raise("ValueError")

\* QueryModel.as_query: the model made of the request's parameters, or the
\* RequestValidationError raised for the ValidationError of its validators.
as_query(data) ==
    LET box  == bboxValidation(data.bbox)
        recs == maximumRecordsValidation(data.records_per_page)
    IN  IF IsRaise(box) \/ IsRaise(recs)
        THEN [raised |-> "RequestValidationError", params |-> Nothing]
        ELSE [raised |-> "none",
              params |-> [data EXCEPT !.bbox = box, !.records_per_page = recs]]

\* GET /search is received: Depends(QueryModel.as_query) runs before the body
\* of search(), which is not entered when it raises.
AsQuery(r, data) ==
    /\ tasks[r].pc = "received"
    /\ LET model == as_query(data)
       IN  /\ call' = <<"as_query", data>>
           /\ raised' = model.raised
           /\ returned' = model.params
           /\ tasks' = [tasks EXCEPT
                           ![r] = IF model.raised = "none"
                                  THEN [@ EXCEPT !.pc = "idle"]
                                  ELSE [@ EXCEPT !.pc = "rejected",
                                                 !.raised = model.raised]]
    /\ UNCHANGED <<handler, agg, heap, engine>>

\* The pieces bbox strings are made of.
Pieces ==
    {<<"-", "1", "1", ".", "5">>, <<"3", "5", ".", "3">>, <<"2", "0", "0">>,
     <<"-", "9", "5">>, <<"a", "b", "c">>, <<"n", "a", "n">>}

RECURSIVE Join(_)
Join(pieces) ==
    IF Len(pieces) = 0 THEN <<>>
    ELSE IF Len(pieces) = 1 THEN pieces[1]
    ELSE pieces[1] \o <<",">> \o Join(Tail(pieces))

RawBoxes == {None} \cup {<<"chars", Join(ps)>> : ps \in SeqsUpTo(Pieces, MaxCoords)}

RawPages == {0, 1, 3}

RawRecords == {Num(-5), Num(0), Num(10), Num(100), Num(101)}

\* The requests received: page and recordsPerPage any integers, bbox any
\* string.
RawRequests ==
    {[BaseParams EXCEPT !.page = p, !.records_per_page = n, !.bbox = box] :
        p \in RawPages, n \in RawRecords, box \in RawBoxes}

InitValidation ==
    /\ handler = NewQuery("base")
    /\ agg = NewAggregation
    /\ call = <<"__init__">>
    /\ raised = "none"
    /\ returned = Nothing
    /\ tasks = <<[IdleTask EXCEPT !.pc = "received"]>>
    /\ heap = <<>>
    /\ engine = <<<<>>>>

\* One request from its validation to its result.
NextValidation ==
    \/ call = <<"__init__">> /\ \E data \in RawRequests : AsQuery(1, data)
    \/ raised = "none" /\ call[1] = "as_query" /\ SearchStart(1, returned, TRUE)
    \/ \E response \in EngineResponses : EngineResponds(1, response)
    \/ \E error \in EngineErrors : EngineFails(1, error)

SpecValidation == InitValidation /\ [][NextValidation]_vars

-----------------------------------------------------------------------------

(* The group cache of ingestion: Cache and load_parquet of cli.py *)

MaxRows == 3        \* rows of one file

\* Cache.get: self._cache[src][title][desc] when the three keys are there.
get(cache, src, title, desc) ==
    IF /\ Has(cache, src)
       /\ Has(Get(cache, src), title)
       /\ Has(Get(Get(cache, src), title), desc)
    THEN Get(Get(Get(cache, src), title), desc)
    ELSE None

\* Cache.update: self._cache after the call.
update(cache, src, title, desc, value) ==
    IF Has(cache, src)
    THEN IF Has(Get(cache, src), title)
         THEN Dict(SetItem(cache[2], src,
                 Dict(SetItem(Get(cache, src)[2], title,
                    Dict(SetItem(Get(Get(cache, src), title)[2], desc, value))))))
         ELSE Dict(SetItem(cache[2], src,
                 Dict(SetItem(Get(cache, src)[2], title, Dict(desc :> value)))))
    ELSE Dict(SetItem(cache[2], src,
            Dict(src :> Dict(title :> Dict(desc :> value)))))

\* str(uuid4()): an identifier no call has returned before, the n-th one.
uuid4(n) == Str(<<"u1", "u2", "u3", "u4", "u5", "u6">>[n])

\* The group of the first hit of the search of lines 123-146 for a record
\* with this source, title and description, or None when nothing is found
\* (IndexError).
SearchGroup(index, src, title, desc) ==
    IF <<src, title, desc>> \in DOMAIN index THEN index[<<src, title, desc>>] ELSE None

\* One pass of the loop of load_parquet for a row with this source, title
\* and description: the record it yields has the group of the cache, or
\* else the group found in the index or a new one, which is then stored.
LoadRow(src, title, desc) ==
    /\ Len(tasks.records) < MaxRows
    /\ LET cached == get(heap[1], src, title, desc)
           found  == SearchGroup(engine, src, title, desc)
           group  == IF cached # None THEN cached
                     ELSE IF found # None THEN found
                     ELSE uuid4(Len(tasks.log) + 1)
       IN  /\ heap' = IF cached # None THEN heap
                      ELSE <<update(heap[1], src, title, desc, group)>>
           /\ tasks' = [log     |-> IF cached # None THEN tasks.log
                                    ELSE Append(tasks.log, <<src, title, desc, group>>),
                        records |-> Append(tasks.records, <<src, title, desc, group>>)]
           /\ call' = <<"load_parquet", src, title, desc>>
           /\ raised' = "none"
           /\ returned' = group
    /\ UNCHANGED <<handler, agg, engine>>

\* Source identifiers, titles and descriptions: a title may read as a source
\* identifier does.
Sources == {"a", "b"}

Titles == {"a", "t"}

Descriptions == {"d"}

\* What the index holds before the file is loaded: nothing, or one record.
Indexes == {<<>>, <<"a", "t", "d">> :> Str("g1")}

\* cache = Cache(), before the first row. The records a load yields are
\* indexed after the loop has yielded them, in chunks: the index the loop
\* searches is the one before the load.
InitCache ==
    /\ handler = NewQuery("base")
    /\ agg = NewAggregation
    /\ call = <<"__init__">>
    /\ raised = "none"
    /\ returned = Nothing
    /\ tasks = [log |-> <<>>, records |-> <<>>]
    /\ heap = <<Dict(EmptyDict)>>
    /\ engine \in Indexes

\* The rows of one file, one after the other.
NextCache ==
    \E src \in Sources, title \in Titles, desc \in Descriptions :
        LoadRow(src, title, desc)

SpecCache == InitCache /\ [][NextCache]_vars

-----------------------------------------------------------------------------

(* POST /ontology/eiffo: new_ontology of api/routers/ontology.py *)

\* The record's document in the index: its _source, read by es.search() and
\* merged into by es.update().
Source(ontology) == Dict("_ontology" :> ontology)

\* Lines 18-49, _check_record_id on the engine's response: the list under
\* _ontology of the first hit, [] when the key is missing or None; an
\* HTTPException when there is no hit.
_check_record_id(doc) ==
    IF doc = None THEN Raise("HTTPException")
    ELSE IF ~Has(doc, "_ontology") THEN List(<<>>)
    ELSE IF Get(doc, "_ontology") = None THEN List(<<>>)
    ELSE Get(doc, "_ontology")

\* es.update() with a partial document: its keys replace those of the source.
es_update(doc, partial) == Dict(Update(doc[2], partial[2]))

\* Line 92: {"_ontology": [*previous, body]}, the list as it was read.
UpdateBody(doc, previous, body) ==
    Dict("_ontology" :> List(previous[2] \o <<body>>))

\* Lines 89-90: the entry made of the request, without its record_id: a new
\* id, the fields of the request (its ontology stands for them all) and the
\* time of the call.
NewBody(r, ontology) ==
    Dict(("id" :> uuid4(r)) @@
         ("ontology" :> Str(ontology)) @@
         ("creation" :> isoformat(datetime(2024, 1, r))))

IdleOntologyTask == [pc |-> "idle", body |-> Nothing, previous |-> Nothing]

\* POST /ontology/eiffo is received: the entry is made and the search of
\* _check_record_id is issued and awaited.
NewOntology(r, ontology) ==
    /\ tasks[r].pc = "idle"
    /\ tasks' = [tasks EXCEPT ![r] = [@ EXCEPT !.pc = "checking",
                                               !.body = NewBody(r, ontology)]]
    /\ UNCHANGED <<handler, agg, call, raised, returned, heap, engine>>

\* The search answers with the document as it is now: _check_record_id
\* returns its list, and es.update() is issued with the list and the new
\* entry, and awaited; or it raises for a record that is not there.
CheckReturns(r) ==
    /\ tasks[r].pc = "checking"
    /\ LET previous == _check_record_id(engine.doc)
       IN  tasks' = [tasks EXCEPT
                        ![r] = IF IsRaise(previous)
                               THEN [@ EXCEPT !.pc = "raised"]
                               ELSE [@ EXCEPT !.pc = "updating",
                                              !.previous = previous]]
    /\ UNCHANGED <<handler, agg, call, raised, returned, heap, engine>>

\* The engine applies the update and answers: new_ontology returns the entry.
UpdateApplied(r) ==
    /\ tasks[r].pc = "updating"
    /\ engine' = [engine EXCEPT
                     !.doc = es_update(@, UpdateBody(@, tasks[r].previous,
                                                     tasks[r].body))]
    /\ tasks' = [tasks EXCEPT ![r] = [@ EXCEPT !.pc = "done"]]
    /\ UNCHANGED <<handler, agg, call, raised, returned, heap>>

Ontologies == {"eiffo", "sdg"}

\* An entry the record holds before the requests.
OldEntry ==
    Dict(("id" :> Str("u0")) @@
         ("ontology" :> Str("eiffo")) @@
         ("creation" :> isoformat(datetime(2023, 12, 31))))

\* The record before the requests: not in the index, without _ontology,
\* with None or with a list under it.
Documents ==
    {None, Dict(EmptyDict), Source(None), Source(List(<<>>)), Source(List(<<OldEntry>>))}

InitOntology ==
    /\ handler = NewQuery("base")
    /\ agg = NewAggregation
    /\ call = <<"__init__">>
    /\ raised = "none"
    /\ returned = Nothing
    /\ tasks = [r \in Requests |-> IdleOntologyTask]
    /\ heap = <<>>
    /\ \E doc \in Documents : engine = [before |-> doc, doc |-> doc]

\* Requests for one record handled together on one event loop.
NextOntology ==
    \/ \E r \in Requests, ontology \in Ontologies : NewOntology(r, ontology)
    \/ \E r \in Requests : CheckReturns(r)
    \/ \E r \in Requests : UpdateApplied(r)

SpecOntology == InitOntology /\ [][NextOntology]_vars

-----------------------------------------------------------------------------

(* Ingest jobs: ingest of api/internal/admin.py, ingest_data_task of tasks.py *)

MaxFiles == 3       \* parquet files under the path of one job

\* _update_job_status: es.update(index='ingest-jobs', id=token,
\* body={"doc": kwargs}): the keys of kwargs replace those of the document.
\* The list of the statuses the document has had is kept beside it.
_update_job_status(job, kwargs) ==
    [doc      |-> Update(job.doc, kwargs),
     statuses |-> IF "status" \in DOMAIN kwargs
                  THEN Append(job.statuses, kwargs["status"])
                  ELSE job.statuses]

\* f"{counter}/{n}"
Progress(counter, n) == <<"chars", <<Digit(counter), "/", Digit(n)>>>>

\* datetime.now().isoformat(): some time of the day of the run.
Now == isoformat(datetime(2024, 1, 1))

\* POST /admin/ingest: the job document is indexed with status pending, and
\* after that await the task is queued under the document's id.
Ingest(n) ==
    /\ tasks.pc = "none"
    /\ engine' = [doc      |-> ("started" :> Now) @@ ("status" :> Str("pending")),
                  statuses |-> <<Str("pending")>>]
    /\ tasks' = [tasks EXCEPT !.pc = "queued", !.files = n]
    /\ UNCHANGED <<handler, agg, call, raised, returned, heap>>

\* A step of the try block that calls the engine or reads the files: when
\* it raises (ok is false) the except branch is next.
TryStep(from, ok, to, job, worked) ==
    /\ tasks.pc = from
    /\ IF ok
       THEN /\ engine' = job
            /\ tasks' = [tasks EXCEPT !.pc = to, !.worked = @ \/ worked]
       ELSE /\ engine' = engine
            /\ tasks' = [tasks EXCEPT !.pc = "except", !.excepted = TRUE]
    /\ UNCHANGED <<handler, agg, call, raised, returned, heap>>

\* Line 40: _update_job_status(token, status="active")
TaskActive(ok) ==
    TryStep("queued", ok, "index",
            _update_job_status(engine, "status" :> Str("active")), FALSE)

\* Lines 41-43: the index is made when it is not there, the files are listed.
TaskIndex(ok) == TryStep("index", ok, "listed", engine, TRUE)

\* Line 44: the progress 0/n.
TaskListed(ok) ==
    TryStep("listed", ok, IF tasks.files = 0 THEN "ingested" ELSE "file",
            _update_job_status(engine, "progress" :> Progress(0, tasks.files)), FALSE)

\* Line 46: _ingest of the next file.
TaskIngestFile(ok) ==
    /\ tasks.pc = "file"
    /\ IF ok
       THEN tasks' = [tasks EXCEPT !.pc = "progress", !.counter = @ + 1,
                                   !.worked = TRUE]
       ELSE tasks' = [tasks EXCEPT !.pc = "except", !.excepted = TRUE,
                                   !.worked = TRUE]
    /\ UNCHANGED <<handler, agg, call, raised, returned, heap, engine>>

\* Line 47: the progress after the file.
TaskProgress(ok) ==
    TryStep("progress", ok,
            IF tasks.counter = tasks.files THEN "ingested" ELSE "file",
            _update_job_status(engine,
                "progress" :> Progress(tasks.counter, tasks.files)), FALSE)

\* Line 48: status ingested, with the time.
TaskIngested(ok) ==
    TryStep("ingested", ok, "returned",
            _update_job_status(engine,
                ("status" :> Str("ingested")) @@ ("finished" :> Now)), FALSE)

\* Lines 49-51, the except branch: status failed, with the message and the
\* time. When this call raises the exception leaves the task.
TaskExcept(ok) ==
    /\ tasks.pc = "except"
    /\ IF ok
       THEN /\ engine' = _update_job_status(engine,
                            ("status" :> Str("failed")) @@
                            ("msg" :> Str("error")) @@ ("finished" :> Now))
            /\ tasks' = [tasks EXCEPT !.pc = "returned"]
       ELSE /\ engine' = engine
            /\ tasks' = [tasks EXCEPT !.pc = "raised"]
    /\ UNCHANGED <<handler, agg, call, raised, returned, heap>>

InitIngest ==
    /\ handler = NewQuery("base")
    /\ agg = NewAggregation
    /\ call = <<"__init__">>
    /\ raised = "none"
    /\ returned = Nothing
    /\ tasks = [pc |-> "none", files |-> 0, counter |-> 0,
                worked |-> FALSE, excepted |-> FALSE]
    /\ heap = <<>>
    /\ engine = [doc |-> <<>>, statuses |-> <<>>]

\* One job, every call of the task to the engine succeeding or raising.
NextIngest ==
    \/ \E n \in 0 .. MaxFiles : Ingest(n)
    \/ \E ok \in BOOLEAN : TaskActive(ok)
    \/ \E ok \in BOOLEAN : TaskIndex(ok)
    \/ \E ok \in BOOLEAN : TaskListed(ok)
    \/ \E ok \in BOOLEAN : TaskIngestFile(ok)
    \/ \E ok \in BOOLEAN : TaskProgress(ok)
    \/ \E ok \in BOOLEAN : TaskIngested(ok)
    \/ \E ok \in BOOLEAN : TaskExcept(ok)

SpecIngest == InitIngest /\ [][NextIngest]_vars

-----------------------------------------------------------------------------

(* Properties *)

\* Whether value x occurs in value v: as v itself, or inside one of its
\* entries.
RECURSIVE Occurs(_, _)
Occurs(x, v) ==
    \/ x = v
    \/ /\ v[1] \in {"list", "dict"}
       /\ \E k \in DOMAIN v[2] : Occurs(x, v[2][k])

LastCall == call[1]

\* C1: whatever the builder's class and whatever calls of bbox, between and
\* filter were made, every clause accumulated in the filter list is present
\* in the payload parse() returns.
C1_FiltersInPayload ==
    LastCall = "parse" =>
        \A i \in DOMAIN handler.filter_ : Occurs(handler.filter_[i], returned)

\* The Aggregation object without its first entry, and without its last.
Rest(a) == [aggs |-> Tail(a.aggs), agg_names |-> Tail(a.agg_names)]

Front(a) == [aggs      |-> SubSeq(a.aggs, 1, Len(a.aggs) - 1),
             agg_names |-> SubSeq(a.agg_names, 1, Len(a.agg_names) - 1)]

\* The tree's outermost entry is the one named name, its aggs is the tree
\* sub, and what else it holds is what add() registered as entry.
Wraps(tree, name, entry, sub) ==
    /\ tree[1] = "dict"
    /\ Keys(tree) = {name}
    /\ Has(Get(tree, name), "aggs")
    /\ Get(Get(tree, name), "aggs") = sub
    /\ \A k \in Keys(Get(tree, name)) \ {"aggs"} :
          /\ Has(Get(entry, name), k)
          /\ Get(Get(tree, name), k) = Get(Get(entry, name), k)
    /\ Keys(Get(entry, name)) \subseteq Keys(Get(tree, name))

\* C2, as claimed: for a spec of at least 2 entries, the outermost key of the
\* tree to_dict() returns is the name of the last-added aggregation, and the
\* value under its aggs is the tree built from all entries but the last.
C2_LastAddedOutermost ==
    (LastCall = "to_dict" /\ Len(agg.aggs) >= 2) =>
        Wraps(returned, agg.agg_names[Len(agg.aggs)], agg.aggs[Len(agg.aggs)],
              to_dict(Front(agg)))

\* C2, amended: for a spec of at least 2 entries, the outermost key of the
\* tree to_dict() returns is the name of the first-added aggregation, and the
\* value under its aggs is the tree built from all entries but the first.
C2_FirstAddedOutermost ==
    (LastCall = "to_dict" /\ Len(agg.aggs) >= 2) =>
        Wraps(returned, agg.agg_names[1], agg.aggs[1], to_dict(Rest(agg)))

\* C2's case: to_dict() has returned the tree of a spec of two entries with
\* different names.
C2_Witness ==
    /\ LastCall = "to_dict"
    /\ Len(agg.aggs) = 2
    /\ agg.agg_names = <<"source", "source_title">>
    /\ Keys(returned) = {"source"}

\* The text a payload's phrase matches search for: the query of the title
\* clause of an exact builder's payload.
PhraseQuery(payload) ==
    Get(Get(Get(Get(Get(Get(payload, "query"), "bool"), "should")[2][1],
                "match_phrase"), "title"), "query")

\* The payload was compiled by a base builder, by an exact builder from a
\* query string, or by a semantic builder from a query string.
CompiledFromText(b, payload) ==
    \/ b.cls = "base"
    \/ b.cls = "exact" /\ IsStr(PhraseQuery(payload))
    \/ b.cls = "semantic" /\ Has(payload, "knn")

\* C3: for a base builder, an exact builder with a query string and a
\* semantic builder with a query string, parse() called twice with no setter
\* call in between returns payloads equal in value: what is read after the
\* second call is what was read after the first.
C3_ParseTwiceSamePayload ==
    [][(call = <<"parse">> /\ call' = <<"parse">> /\ CompiledFromText(handler, returned))
         => returned' = returned]_vars

\* C4: add() with a name the spec already holds raises at the call and leaves
\* the entries and the names as they were; add() with a fresh name raises
\* nothing and appends exactly one entry, under that name.
C4_AddDuplicateRaises ==
    [][call'[1] = "add" =>
        LET agg_name == call'[2]
        IN  IF \E i \in DOMAIN agg.agg_names : agg.agg_names[i] = agg_name
            THEN /\ raised' = "ValueError"
                 /\ agg' = agg
            ELSE /\ raised' = "none"
                 /\ agg'.agg_names = Append(agg.agg_names, agg_name)
                 /\ Len(agg'.aggs) = Len(agg.aggs) + 1
                 /\ SubSeq(agg'.aggs, 1, Len(agg.aggs)) = agg.aggs
                 /\ Keys(agg'.aggs[Len(agg'.aggs)]) = {agg_name}]_vars

\* C4's case: an add() with a registered name has raised, the spec still
\* holding the one entry it held.
C4_Witness ==
    /\ LastCall = "add"
    /\ raised = "ValueError"
    /\ agg.agg_names = <<call[2]>>
    /\ Len(agg.aggs) = 1

\* One phrase-match clause of the exact builder: the field, the text, slop 5.
IsPhraseMatch(clause, field, text) ==
    /\ clause[1] = "dict"
    /\ Keys(clause) = {"match_phrase"}
    /\ Keys(Get(clause, "match_phrase")) = {field}
    /\ Has(Get(Get(clause, "match_phrase"), field), "query")
    /\ Get(Get(Get(clause, "match_phrase"), field), "query") = text
    /\ Has(Get(Get(clause, "match_phrase"), field), "slop")
    /\ Get(Get(Get(clause, "match_phrase"), field), "slop") = Num(5)

C6_SemanticKnn ==
    [][(call' = <<"parse">> /\ handler.cls = "semantic" /\ IsStr(handler.query_)) =>
        /\ handler'.filter_ =
              Append(handler.filter_, Dict("term" :> Dict("_lang" :> Str("en"))))
        /\ Has(returned', "knn")
        /\ LET knn == Get(returned', "knn")
           IN  /\ Keys(knn) = {"field", "query_vector", "k", "num_candidates", "filter"}
               /\ Get(knn, "filter") = List(handler'.filter_)
               /\ Get(knn, "k") = Num(10000)
               /\ Get(knn, "num_candidates") = Num(10000)
               /\ Get(knn, "field") = Str("_embedding")
               /\ Get(knn, "query_vector") = <<"vec", handler.query_[2]>>
        /\ handler'.query_ = None
        /\ ~Has(returned', "query")]_vars

\* C6's case: a semantic builder with a query string and an earlier filter
\* has been parsed, its knn filter ending with the language clause.
C6_Witness ==
    /\ LastCall = "parse"
    /\ handler.cls = "semantic"
    /\ Has(returned, "knn")
    /\ Get(Get(returned, "knn"), "query_vector") = <<"vec", "flood risk">>
    /\ Len(handler.filter_) >= 2
    /\ Get(Get(returned, "knn"), "filter") = List(handler.filter_)

PayloadKeys == {"min_score", "query", "from", "size", "fields", "_source",
                "collapse", "aggs"}

\* C7, as claimed: every top-level key of the payload a search request sends
\* to the engine is one of min_score, query, from, size, fields, _source,
\* collapse, aggs.
C7_TopLevelKeys ==
    LastCall = "search" => Keys(returned) \subseteq PayloadKeys

\* C7, amended: every top-level key of the payload a search request sends to
\* the engine is one of min_score, query, knn, from, size, fields, _source,
\* collapse, aggs.
C7_TopLevelKeysWithKnn ==
    LastCall = "search" => Keys(returned) \subseteq PayloadKeys \cup {"knn"}

\* C7's case: a semantic search request with filters and facets has been
\* compiled and sent.
C7_Witness ==
    /\ LastCall = "search"
    /\ call[2].query # None
    /\ call[2].query_method = "semantic"
    /\ call[2].sources # None
    /\ Keys(returned) = (PayloadKeys \ {"query"}) \cup {"knn"}

\* The builder holds a pass-through option of that name.
HasCustom(b, name) == \E i \in DOMAIN b.custom_ : b.custom_[i][1] = name

\* The payload's paging is that of page p and n records per page.
PagingIs(payload, p, n) ==
    /\ Has(payload, "from")
    /\ Get(payload, "from") = Num(n * (p - 1))
    /\ Has(payload, "size")
    /\ Get(payload, "size") = Num(n)

\* C8, as claimed: with page p >= 1 and n records per page set on the
\* builder, in whatever order and among whatever other setters, the compiled
\* payload has from = n * (p - 1) and size = n.
C8_Paging ==
    (LastCall = "parse" /\ handler.records # None) =>
        PagingIs(returned, handler.page_, handler.records[2])

\* C8, amended: the same, provided no pass-through option named from or size
\* was set on the builder; such an option is written after the paging keys
\* and replaces them.
C8_PagingUnlessCustom ==
    (LastCall = "parse" /\ handler.records # None
        /\ ~HasCustom(handler, "from") /\ ~HasCustom(handler, "size")) =>
        PagingIs(returned, handler.page_, handler.records[2])

\* C8's case: page 2 of 10 records per page has been compiled beside another
\* pass-through option and aggregations.
C8_Witness ==
    /\ LastCall = "parse"
    /\ handler.page_ = 2
    /\ handler.records = Num(10)
    /\ HasCustom(handler, "_source")
    /\ Has(returned, "aggs")
    /\ PagingIs(returned, 2, 10)

\* The relation each spatial predicate stands for, as the engine names it.
RelationOf ==
    ("contains" :> "WITHIN") @@ ("overlaps" :> "INTERSECTS") @@ ("disjoint" :> "DISJOINT")

\* The envelope clause of the box <<xmin, ymin, xmax, ymax>>: the corners
\* [[xmin, ymax], [xmax, ymin]] and the relation.
IsEnvelope(clause, box, relation) ==
    /\ clause[1] = "dict"
    /\ Keys(clause) = {"geo_shape"}
    /\ Keys(Get(clause, "geo_shape")) = {"_geom"}
    /\ LET geom == Get(Get(clause, "geo_shape"), "_geom")
       IN  /\ Keys(geom) = {"shape", "relation"}
           /\ Get(geom, "relation") = Str(relation)
           /\ Keys(Get(geom, "shape")) = {"type", "coordinates"}
           /\ Get(Get(geom, "shape"), "type") = Str("envelope")
           /\ Get(Get(geom, "shape"), "coordinates") =
                 List(<<List(<<Num(box[1]), Num(box[4])>>),
                        List(<<Num(box[3]), Num(box[2])>>)>>)

\* C9: bbox([xmin, ymin, xmax, ymax], predicate) appends exactly one envelope
\* clause, of corners [[xmin, ymax], [xmax, ymin]] and of the relation the map
\* contains -> within, overlaps -> intersects, disjoint -> disjoint gives; with
\* any other predicate it raises and appends nothing.
C9_BboxClause ==
    [][call'[1] = "bbox" =>
        LET box       == call'[2]
            predicate == call'[3]
        IN  IF predicate \in {"contains", "overlaps", "disjoint"}
            THEN /\ raised' = "none"
                 /\ Len(handler'.filter_) = Len(handler.filter_) + 1
                 /\ SubSeq(handler'.filter_, 1, Len(handler.filter_)) = handler.filter_
                 /\ IsEnvelope(handler'.filter_[Len(handler'.filter_)], box,
                               RelationOf[predicate])
            ELSE /\ raised' # "none"
                 /\ handler'.filter_ = handler.filter_]_vars

\* C9's case: bbox() with a predicate outside the map has raised, the filter
\* list still ending with the envelope an earlier bbox("contains") appended.
C9_Witness ==
    /\ LastCall = "bbox"
    /\ call[3] = "touches"
    /\ raised = "KeyError"
    /\ Len(handler.filter_) >= 1
    /\ IsEnvelope(handler.filter_[Len(handler.filter_)], call[2], "WITHIN")

\* The engine's reading of a date string: YYYY-MM-DD, and a time it takes as
\* the time of that day.
ParseDate(iso) ==
    [year  |-> Number(SubSeq(iso[2], 1, 4)),
     month |-> Number(SubSeq(iso[2], 6, 7)),
     day   |-> Number(SubSeq(iso[2], 9, 10))]

\* Day a is not after day b.
NotAfter(a, b) ==
    \/ a.year < b.year
    \/ a.year = b.year /\ a.month < b.month
    \/ a.year = b.year /\ a.month = b.month /\ a.day <= b.day

\* The engine's reading of a range clause on a record [when.from, when.to].
RangeMatches(clause, record) ==
    LET field == CHOOSE f \in Keys(Get(clause, "range")) : TRUE
        bound == Get(Get(clause, "range"), field)
    IN  /\ Has(bound, "gte") => NotAfter(ParseDate(Get(bound, "gte")), record[field])
        /\ Has(bound, "lte") => NotAfter(record[field], ParseDate(Get(bound, "lte")))

Days == {[year |-> 2018, month |-> 1, day |-> 1],
         [year |-> 2018, month |-> 6, day |-> 1],
         [year |-> 2019, month |-> 1, day |-> 1],
         [year |-> 2019, month |-> 3, day |-> 1],
         [year |-> 2019, month |-> 5, day |-> 1],
         [year |-> 2019, month |-> 6, day |-> 1]}

\* The records of temporal extent [s, e], s not after e.
Extents ==
    {("when.from" :> se[1]) @@ ("when.to" :> se[2]) :
        se \in {pair \in Days \X Days : NotAfter(pair[1], pair[2])}}

Extent(s, e) == ("when.from" :> s[2]) @@ ("when.to" :> e[2])

PassesAll(clauses, record) ==
    \A i \in DOMAIN clauses :
        Has(clauses[i], "range") /\ RangeMatches(clauses[i], record)

\* C10: between(from, to) appends one range clause per bound that is not
\* None, and nothing when both are None; a record of extent [s, e] passes the
\* appended clauses exactly when (from is None or e >= from) and (to is None
\* or s <= to). With from = 2019-05-01 the extent [2019-01-01, 2019-06-01]
\* passes and the extent [2018-01-01, 2018-06-01] does not.
C10_BetweenOverlap ==
    [][call'[1] = "between" =>
        LET from_    == call'[2]
            to_      == call'[3]
            n        == Len(handler.filter_)
            appended == SubSeq(handler'.filter_, n + 1, Len(handler'.filter_))
        IN  /\ SubSeq(handler'.filter_, 1, n) = handler.filter_
            /\ Len(appended) = (IF from_ # None THEN 1 ELSE 0) + (IF to_ # None THEN 1 ELSE 0)
            /\ \A record \in Extents :
                  PassesAll(appended, record) <=>
                      /\ from_ = None \/ NotAfter(from_[2], record["when.to"])
                      /\ to_ = None \/ NotAfter(record["when.from"], to_[2])
            /\ (from_ = datetime(2019, 5, 1) /\ to_ = None) =>
                  /\ PassesAll(appended, Extent(datetime(2019, 1, 1), datetime(2019, 6, 1)))
                  /\ ~PassesAll(appended, Extent(datetime(2018, 1, 1), datetime(2018, 6, 1)))]_vars

\* C10's case: between(from = 2019-05-01) has appended its one clause, on the
\* end of the records' extent.
C10_Witness ==
    /\ LastCall = "between"
    /\ call[2] = datetime(2019, 5, 1)
    /\ call[3] = None
    /\ Len(handler.filter_) >= 1
    /\ Has(Get(handler.filter_[Len(handler.filter_)], "range"), "when.to")

-----------------------------------------------------------------------------
\* Whether sequence s is the beginning of sequence t.
IsPrefix(s, t) ==
    /\ Len(s) <= Len(t)
    /\ \A i \in DOMAIN s : s[i] = t[i]

\* C11: filter(field, value) appends exactly one clause at the end of the
\* filter list, {"term": {field: value}} when value is a single string and
\* {"terms": {field: value}} when it is a list, every clause accumulated
\* before staying where it was; and no call on the builder removes or
\* reorders an accumulated filter: the list before any step is the beginning
\* of the list after it.
C11_FilterAppendsOne ==
    [][/\ IsPrefix(handler.filter_, handler'.filter_)
       /\ call'[1] = "filter" =>
            LET field == call'[2]
                value == call'[3]
                key   == IF value[1] = "list" THEN "terms" ELSE "term"
            IN  /\ raised' = "none"
                /\ Len(handler'.filter_) = Len(handler.filter_) + 1
                /\ handler'.filter_[Len(handler'.filter_)]
                     = Dict(key :> Dict(field :> value))]_vars

\* C11's case: filter("keyword", ["hydrology", "risk"]) was called on a
\* builder that already held a clause, and its terms clause is the last of
\* two.
C11_Witness ==
    /\ LastCall = "filter"
    /\ call[3][1] = "list"
    /\ Len(handler.filter_) = 2
    /\ Has(handler.filter_[2], "terms")
    /\ ~Has(handler.filter_[1], "terms")

-----------------------------------------------------------------------------
\* The normalizer was called and returned a result.
Normalized == LastCall = "_parseElasticResponse" /\ raised = "none"

\* The value of the group_number aggregation of the response normalized.
GroupCount == call[2][2]["aggregations"][2]["group_number"][2]["value"][2]

\* C12: for every page length n and every count g of distinct groups (the
\* value of the group_number aggregation, whatever the total hit count), the
\* normalizer returns totalPages = ceil(g / n), the least t with t * n >= g;
\* zero groups give zero pages.
C12_TotalPages ==
    Normalized =>
        LET n == call[3].records_per_page
            t == returned[2]["totalPages"][2]
        IN  /\ t * n >= GroupCount
            /\ (t - 1) * n < GroupCount
            /\ GroupCount = 0 => t = 0

\* C12's case: 7 groups among 25 hits at 3 per page give 3 pages, where the
\* hits would fill 9.
C12_Witness ==
    /\ Normalized
    /\ GroupCount = 7
    /\ call[3].records_per_page = 3
    /\ returned[2]["numberOfResults"] = Num(25)
    /\ returned[2]["totalPages"] = Num(3)

\* The names of the aggregations of the response normalized.
AggregationNames == DOMAIN call[2][2]["aggregations"][2]

\* C13: the significantTerms map of the result has one key for every
\* aggregation name of the response except group_number, which is never a
\* key of it.
C13_FacetKeys ==
    Normalized =>
        DOMAIN returned[2]["significantTerms"][2] = AggregationNames \ {"group_number"}

\* Whether decimal r, of at most four places, is the one nearest to x: they
\* differ by at most half of 0.0001. (Both taken to six places.)
Micro(x) == IF x[1] = "num" THEN x[2] * 1000000 ELSE x[2] * Pow10(6 - x[3])

IsRounded(x, r) ==
    /\ r[1] = "dec" => r[3] <= 4
    /\ 2 * (Micro(x) - Micro(r)) <= 100
    /\ 2 * (Micro(r) - Micro(x)) <= 100

\* What a bucket holds under key, None when it does not hold it.
BucketValue(bucket, key) ==
    IF key \in DOMAIN bucket[2] THEN bucket[2][key] ELSE None

\* The title in the source_title sub-bucket of a bucket, None without one.
BucketTitle(bucket) ==
    IF /\ "source_title" \in DOMAIN bucket[2]
       /\ Len(bucket[2]["source_title"][2]["buckets"][2]) > 0
    THEN bucket[2]["source_title"][2]["buckets"][2][1][2]["key"]
    ELSE None

\* Whether record is the term record of bucket in the variant chosen by
\* (the facet is the source facet, significance is on).
IsTermRecord(record, bucket, isSource, significance) ==
    LET fields == {"term", "freq"}
                    \cup (IF significance THEN {"bgFreq", "score"} ELSE {})
                    \cup (IF isSource THEN {"termId"} ELSE {})
    IN  /\ record[1] = "dict"
        /\ DOMAIN record[2] = fields
        /\ record[2]["freq"] = BucketValue(bucket, "doc_count")
        /\ record[2]["term"] = IF isSource THEN BucketTitle(bucket)
                               ELSE BucketValue(bucket, "key")
        /\ isSource => record[2]["termId"] = BucketValue(bucket, "key")
        /\ significance =>
             /\ record[2]["bgFreq"] = BucketValue(bucket, "bg_count")
             /\ IsRounded(IF "score" \in DOMAIN bucket[2] THEN bucket[2]["score"]
                          ELSE Num(0),
                          record[2]["score"])

\* The facets of the response normalized: its aggregations with buckets.
FacetNames == AggregationNames \ {"group_number"}

BucketsOf(name) == call[2][2]["aggregations"][2][name][2]["buckets"][2]

\* C14: every facet bucket gives a term record with exactly the fields of
\* the variant chosen by (source facet, significance): {term = key, freq =
\* doc_count}; with termId = key and term = the title of the source_title
\* sub-bucket for the source facet; with bgFreq = bg_count and score = the
\* bucket's score rounded to four places under significance.
C14_TermRecordVariants ==
    Normalized =>
        \A name \in FacetNames :
            LET records == returned[2]["significantTerms"][2][name][2]
            IN  /\ Len(records) = Len(BucketsOf(name))
                /\ \A i \in DOMAIN records :
                      IsTermRecord(records[i], BucketsOf(name)[i],
                                   name = "source", call[3].terms_significance)

\* C14's case: under significance the source bucket (agencyA, 12, 40, 0.83,
\* 'Agency A Full Name') gave term 'Agency A Full Name', freq 12, bgFreq 40,
\* score 0.83, termId agencyA, beside a keyword bucket whose score 0.123456
\* was rounded to 0.1235.
C14_Witness ==
    /\ Normalized
    /\ call[3].terms_significance
    /\ FacetNames = {"keyword", "source"}
    /\ \E i \in DOMAIN returned[2]["significantTerms"][2]["source"][2] :
          returned[2]["significantTerms"][2]["source"][2][i] =
              Dict(("term" :> Str("Agency A Full Name")) @@ ("freq" :> Num(12)) @@
                   ("bgFreq" :> Num(40)) @@ ("score" :> Dec(83, 2)) @@
                   ("termId" :> Str("agencyA")))
    /\ \E i \in DOMAIN returned[2]["significantTerms"][2]["keyword"][2] :
          returned[2]["significantTerms"][2]["keyword"][2][i] =
              Dict(("term" :> Str("hydrology")) @@ ("freq" :> Num(7)) @@
                   ("bgFreq" :> Num(19)) @@ ("score" :> Dec(1235, 4)))

\* C15: facet extraction never raises on missing optional bucket values: in
\* each of the four variants a bucket without bg_count, score or source_title
\* sub-buckets (absent, or an empty bucket list) gives a term record, and an
\* aggregation with no bucket gives an empty list under its key.
C15_FacetsNeverRaise ==
    LastCall = "_parseElasticResponse" =>
        /\ raised = "none"
        /\ \A name \in FacetNames :
              /\ name \in DOMAIN returned[2]["significantTerms"][2]
              /\ Len(returned[2]["significantTerms"][2][name][2]) = Len(BucketsOf(name))

\* The collapsed hits of the response normalized.
Hits == call[2][2]["hits"][2]["hits"][2]

\* The inner hits listed under a hit.
Listed(hit) == hit[2]["inner_hits"][2]["grouped"][2]["hits"][2]["hits"][2]

\* The first value of a field projection of a hit, '' without the projection.
FirstOf(hit, name) ==
    IF name \in DOMAIN hit[2]["fields"][2] THEN hit[2]["fields"][2][name][2][1]
    ELSE Str("")

\* C16: the result's data holds exactly one group record per collapsed hit,
\* in hit order, with groupId = the hit's _group value, memberCount = the
\* inner-hits total (also when it exceeds the members listed), members = the
\* ids of the inner hits in order, title, description, origin id and origin
\* title = the first value of the field's projection or '' without it, and
\* score = the hit's score.
C16_GroupRecords ==
    Normalized =>
        LET data == returned[2]["data"][2]
        IN  /\ Len(data) = Len(Hits)
            /\ \A h \in DOMAIN Hits :
                  data[h] = Dict(
                      ("groupId" :> FirstOf(Hits[h], "_group")) @@
                      ("memberCount" :>
                          Hits[h][2]["inner_hits"][2]["grouped"][2]["hits"][2]["total"][2]["value"]) @@
                      ("members" :>
                          List([j \in DOMAIN Listed(Hits[h]) |->
                                  Listed(Hits[h])[j][2]["_source"][2]["id"]])) @@
                      ("title" :> FirstOf(Hits[h], "title")) @@
                      ("description" :> FirstOf(Hits[h], "description")) @@
                      ("origOrgId" :> FirstOf(Hits[h], "source.id")) @@
                      ("origOrgDesc" :> FirstOf(Hits[h], "source.title")) @@
                      ("score" :> Hits[h][2]["_score"]))

\* C16's case: two hits, the first with its projections and more members in
\* total than the two listed, the second without projections, gave two
\* records in that order.
C16_Witness ==
    /\ Normalized
    /\ Len(Hits) = 2
    /\ Len(returned[2]["data"][2]) = 2
    /\ returned[2]["data"][2][1][2]["groupId"] = Str("g1")
    /\ returned[2]["data"][2][1][2]["members"] = List(<<Str("r1"), Str("r2")>>)
    /\ returned[2]["data"][2][1][2]["memberCount"] = Num(7)
    /\ returned[2]["data"][2][1][2]["title"] = Str("Flood risk map")
    /\ returned[2]["data"][2][2][2]["groupId"] = Str("g2")
    /\ returned[2]["data"][2][2][2]["title"] = Str("")
    /\ returned[2]["data"][2][2][2]["origOrgDesc"] = Str("")

\* The (member id, group id) pairs of the group records from the h-th on, in
\* page order.
RECURSIVE MemberPairs(_, _)
MemberPairs(data, h) ==
    IF h > Len(data) THEN <<>>
    ELSE [j \in DOMAIN data[h][2]["members"][2] |->
             <<data[h][2]["members"][2][j], data[h][2]["groupId"]>>]
         \o MemberPairs(data, h + 1)

\* C17: in every normalized result the feature list has exactly one feature
\* per listed member: the features' (id, properties.groupId) pairs are, in
\* order, the members of the groups in page order, each with the groupId of
\* the group listing it; and a hit with zero inner hits gives memberCount 0,
\* members [] and no feature of its group.
C17_FeaturePerMember ==
    Normalized =>
        LET data     == returned[2]["data"][2]
            features == returned[2]["geoJson"][2]["features"][2]
        IN  /\ [i \in DOMAIN features |->
                  <<features[i][2]["id"], features[i][2]["properties"][2]["groupId"]>>]
                 = MemberPairs(data, 1)
            /\ \A h \in DOMAIN Hits :
                  (/\ Listed(Hits[h]) = <<>>
                   /\ Hits[h][2]["inner_hits"][2]["grouped"][2]["hits"][2]["total"][2]["value"]
                        = Num(0))
                  => /\ data[h][2]["memberCount"] = Num(0)
                     /\ data[h][2]["members"] = List(<<>>)
                     /\ \A i \in DOMAIN features :
                           features[i][2]["properties"][2]["groupId"]
                              # data[h][2]["groupId"]

\* C17's case: a first hit with zero inner hits and a second listing two
\* members gave two features, those of the second group's members.
C17_Witness ==
    /\ Normalized
    /\ Len(Hits) = 2
    /\ Listed(Hits[1]) = <<>>
    /\ returned[2]["data"][2][1][2]["memberCount"] = Num(0)
    /\ returned[2]["data"][2][2][2]["members"] = List(<<Str("r4"), Str("r5")>>)
    /\ Len(returned[2]["geoJson"][2]["features"][2]) = 2
    /\ returned[2]["geoJson"][2]["features"][2][2][2]["id"] = Str("r5")
    /\ returned[2]["geoJson"][2]["features"][2][2][2]["properties"]
          = Dict("groupId" :> Str("g2"))

\* The inner hits of the hits from the h-th on, in order.
RECURSIVE ListedFrom(_)
ListedFrom(h) ==
    IF h > Len(Hits) THEN <<>> ELSE Listed(Hits[h]) \o ListedFrom(h + 1)

\* The _geom of a member document, Nothing when it has none.
GeomOf(member) ==
    IF "_geom" \in DOMAIN member[2]["_source"][2]
    THEN member[2]["_source"][2]["_geom"]
    ELSE Nothing

\* A value with every text cut short in it replaced by the whole text.
RECURSIVE Repaired(_)
Repaired(value) ==
    IF value = CutText THEN PointText
    ELSE IF value[1] = "list"
    THEN List([i \in DOMAIN value[2] |-> Repaired(value[2][i])])
    ELSE IF value[1] = "dict"
    THEN Dict([k \in DOMAIN value[2] |-> Repaired(value[2][k])])
    ELSE value

\* C18: a geometry conversion failure is isolated. When every member holds a
\* _geom and some hold a text that cannot be converted, normalization still
\* completes; the feature of each such member has its type, id and
\* properties.groupId and no geometry; and the features of all other members
\* are those produced when the failing texts are well formed.
C18_ConversionFailureIsolated ==
    LET members == ListedFrom(1)
    IN  (/\ LastCall = "_parseElasticResponse"
         /\ \A i \in DOMAIN members : GeomOf(members[i]) # Nothing
         /\ \E i \in DOMAIN members : GeomOf(members[i]) = List(<<CutText>>))
        => /\ raised = "none"
           /\ LET features == returned[2]["geoJson"][2]["features"][2]
                  repaired == _parseElasticResponse(Repaired(call[2]), call[3])
              IN  /\ Len(features) = Len(members)
                  /\ ~IsRaise(repaired)
                  /\ \A i \in DOMAIN members :
                        IF GeomOf(members[i]) = List(<<CutText>>)
                        THEN /\ DOMAIN features[i][2] = {"type", "id", "properties"}
                             /\ features[i][2]["type"] = Str("Feature")
                             /\ features[i][2]["id"] = members[i][2]["_source"][2]["id"]
                             /\ DOMAIN features[i][2]["properties"][2] = {"groupId"}
                        ELSE features[i] = repaired[2]["geoJson"][2]["features"][2][i]

\* C18's case: of three members the second holds a text cut short; its
\* feature has no geometry, and the features before and after it have theirs.
C18_Witness ==
    /\ Normalized
    /\ Len(ListedFrom(1)) = 3
    /\ GeomOf(ListedFrom(1)[1]) = List(<<PointText>>)
    /\ GeomOf(ListedFrom(1)[2]) = List(<<CutText>>)
    /\ GeomOf(ListedFrom(1)[3]) = List(<<PointText>>)
    /\ "geometry" \in DOMAIN returned[2]["geoJson"][2]["features"][2][1][2]
    /\ "geometry" \notin DOMAIN returned[2]["geoJson"][2]["features"][2][2][2]
    /\ "geometry" \in DOMAIN returned[2]["geoJson"][2]["features"][2][3][2]

\* C19: a member whose geometry in the raw hit is the GeoJSON Point object
\* {type: Point, coordinates: [10.2, 48.1]} gives a feature whose geometry
\* has the same type and the same coordinates.
C19_NativeShapeCarried ==
    Normalized =>
        \A i \in DOMAIN ListedFrom(1) :
            GeomOf(ListedFrom(1)[i]) = NativePoint =>
                LET feature == returned[2]["geoJson"][2]["features"][2][i]
                IN  /\ "geometry" \in DOMAIN feature[2]
                    /\ feature[2]["geometry"][2]["type"] = Str("Point")
                    /\ feature[2]["geometry"][2]["coordinates"]
                         = List(<<Dec(102, 1), Dec(481, 1)>>)

\* C20: an inner-hit member document without a _geom entry does not make
\* normalization raise: the member is in its group's members list and its
\* feature is emitted without a geometry.
C20_MissingGeometryTolerated ==
    LET members == ListedFrom(1)
    IN  (/\ LastCall = "_parseElasticResponse"
         /\ \E i \in DOMAIN members : GeomOf(members[i]) = Nothing)
        => /\ raised = "none"
           /\ \A i \in DOMAIN members :
                 GeomOf(members[i]) = Nothing =>
                    /\ \E h \in DOMAIN returned[2]["data"][2] :
                          \E j \in DOMAIN returned[2]["data"][2][h][2]["members"][2] :
                             returned[2]["data"][2][h][2]["members"][2][j]
                                = members[i][2]["_source"][2]["id"]
                    /\ "geometry" \notin
                          DOMAIN returned[2]["geoJson"][2]["features"][2][i][2]

-----------------------------------------------------------------------------
\* The calls of kind made for request r, in order.
CallsOf(r, kind) == SelectSeq(engine[r], LAMBDA c : c[1] = kind)

\* C21: each exec() issues exactly one search call to the engine, with the
\* compiled payload and the configured index, and returns the engine's
\* response unmodified; when the engine call fails, the failure reaches the
\* caller as it is and no second call is issued.
C21_OneSearchPerExec ==
    \A r \in Requests :
        LET searches == CallsOf(r, "search")
        IN  /\ Len(searches) <= 1
            /\ tasks[r].pc \in {"awaiting", "done"} =>
                  /\ Len(searches) = 1
                  /\ searches[1] = <<"search", elastic_index,
                                     Payload(heap[tasks[r].handler])>>
            /\ tasks[r].pc = "done" =>
                  /\ Len(CallsOf(r, "response")) = 1
                  /\ tasks[r].response = CallsOf(r, "response")[1][2]
            /\ Len(CallsOf(r, "error")) > 0 =>
                  /\ Len(searches) = 1
                  /\ tasks[r].pc = "raised"
                  /\ tasks[r].raised = CallsOf(r, "error")[1][2]
                  /\ engine[r][Len(engine[r])][1] = "error"

\* C21's case: the engine call of request 1 failed and the request raised
\* the failure after its one search call, while request 2 got its response.
C21_Witness ==
    /\ tasks[1].pc = "raised"
    /\ tasks[1].raised = "ConnectionError"
    /\ Len(CallsOf(1, "search")) = 1
    /\ tasks[2].pc = "done"
    /\ tasks[2].response \in EngineResponses

-----------------------------------------------------------------------------
\* A coordinate that is a number of [lo, hi].
Within(x, lo, hi) ==
    /\ x[1] = "dec"
    /\ lo * Pow10(x[3]) <= x[2]
    /\ x[2] <= hi * Pow10(x[3])

\* C22: every search request accepted by request validation has
\* recordsPerPage <= 100 and, when a bbox is present, exactly four numeric
\* coordinates that lie within [-180,180] x [-90,90] (which the per-axis
\* min/max normalization keeps there); a request that is rejected has no
\* builder made for it.
C22_AcceptedRequestsValid ==
    call[1] = "as_query" =>
        /\ raised = "none" =>
              /\ returned.records_per_page[2] <= 100
              /\ returned.bbox # None =>
                    /\ Len(returned.bbox[2]) = 4
                    /\ Within(returned.bbox[2][1], -180, 180)
                    /\ Within(returned.bbox[2][2], -90, 90)
                    /\ Within(returned.bbox[2][3], -180, 180)
                    /\ Within(returned.bbox[2][4], -90, 90)
        /\ raised # "none" =>
              /\ tasks[1].pc = "rejected"
              /\ tasks[1].handler = 0
              /\ heap = <<>>

\* C27: for every accepted search request and every well-formed engine
\* response the pagination math is defined: the accepted recordsPerPage is
\* at least 1, the normalizer does not divide by zero, and the payload's
\* from and size are not negative.
C27_PaginationDefined ==
    (call[1] = "as_query" /\ raised = "none") =>
        /\ returned.records_per_page[2] >= 1
        /\ tasks[1].raised # "ZeroDivisionError"
        /\ tasks[1].payload # Nothing =>
              /\ tasks[1].payload[2]["from"][2] >= 0
              /\ tasks[1].payload[2]["size"][2] >= 0

-----------------------------------------------------------------------------
\* The accumulated state of a builder: what the setters have stored.
Accumulated(b) ==
    <<b.query_, b.filter_, b.aggregations, b.page_, b.records, b.min_score,
      b.custom_>>

\* C23: parse() leaves the builder as it was: for every variant, the query
\* text, filter list, aggregation map, paging, min score and pass-through
\* options after parse() equal those before the call.
C23_ParseKeepsState ==
    [][call' = <<"parse">> => Accumulated(handler') = Accumulated(handler)]_vars

-----------------------------------------------------------------------------
\* The source-title resolution aggregation: terms of source.title, size 1.
SourceTitleTerms ==
    Dict("terms" :> Dict(("field" :> Str("source.title")) @@ ("size" :> Num(1))))

\* The aggregations of the payload search() has compiled.
PayloadAggs == returned[2]["aggs"][2]

\* C24 as stated: in the payload compiled for a search request source_title
\* is an aggregation of its own at the level of source, and source has no
\* child aggregation.
C24_SourceTitleIndependent ==
    LastCall = "search" =>
        /\ "source_title" \in DOMAIN PayloadAggs
        /\ PayloadAggs["source_title"] = SourceTitleTerms
        /\ "aggs" \notin DOMAIN PayloadAggs["source"][2]

\* C24: in the payload compiled for a search request source_title (terms of
\* source.title, size 1) is the one child aggregation nested under the aggs
\* of source, and no aggregation of that name is at the level of source.
C24_SourceTitleNested ==
    LastCall = "search" =>
        /\ "source_title" \notin DOMAIN PayloadAggs
        /\ "source" \in DOMAIN PayloadAggs
        /\ "aggs" \in DOMAIN PayloadAggs["source"][2]
        /\ PayloadAggs["source"][2]["aggs"] = Dict("source_title" :> SourceTitleTerms)

\* C24's case: a request with significant terms and a sources filter has
\* been compiled, its source facet a significant_terms aggregation of
\* source.id with the child under it.
C24_Witness ==
    /\ LastCall = "search"
    /\ call[2].terms_significance
    /\ call[2].sources # None
    /\ "significant_terms" \in DOMAIN PayloadAggs["source"][2]
    /\ PayloadAggs["source"][2]["significant_terms"][2]["field"] = Str("source.id")
    /\ "source_title" \in DOMAIN PayloadAggs["source"][2]["aggs"][2]

-----------------------------------------------------------------------------
\* Whether request r is a semantic one with a query string.
IsSemantic(r) ==
    /\ tasks[r].pc # "idle"
    /\ tasks[r].params.query # None
    /\ SearchClass(tasks[r].params) = "semantic"

\* C25: in semantic mode the embedding call is made, and its vector
\* received, before the engine search is issued: every search call of a
\* semantic request comes after the predict call for its query text and
\* carries the vector; and when the embedding call fails no search call is
\* issued and the failure is raised to the caller.
C25_EmbeddingBeforeSearch ==
    \A r \in Requests :
        /\ IsSemantic(r) =>
              \A i \in DOMAIN engine[r] :
                  engine[r][i][1] = "search" =>
                      /\ \E j \in 1 .. i - 1 :
                            engine[r][j] = <<"predict", tasks[r].params.query>>
                      /\ engine[r][i][3][2]["knn"][2]["query_vector"]
                            = predict(tasks[r].params.query)
        /\ tasks[r].raised = "EmbeddingError" =>
              /\ tasks[r].pc = "raised"
              /\ CallsOf(r, "search") = <<>>
              /\ CallsOf(r, "response") = <<>>
              /\ engine[r] = <<<<"predict", tasks[r].params.query>>>>

\* C25's case: the embedding call of request 1 failed and the request raised
\* without a search call, while the semantic request 2 had its vector, made
\* its search call and got its result.
C25_Witness ==
    /\ IsSemantic(1)
    /\ tasks[1].raised = "EmbeddingError"
    /\ CallsOf(1, "search") = <<>>
    /\ IsSemantic(2)
    /\ tasks[2].pc = "done"
    /\ engine[2][1][1] = "predict"
    /\ engine[2][2][1] = "search"

-----------------------------------------------------------------------------
\* C26: of two search requests in flight together, interleaved at the engine
\* await, each has a builder of its own, and its compiled payload and its
\* normalized result are those of its own parameters and its own engine
\* response, whatever the other request is and does.
C26_RequestsIsolated ==
    \A r \in Requests :
        /\ tasks[r].pc \in {"awaiting", "done"} =>
              /\ tasks[r].payload = Payload(parse(SearchHandler(tasks[r].params)))
              /\ heap[tasks[r].handler] = parse(SearchHandler(tasks[r].params))
              /\ CallsOf(r, "search")
                    = <<<<"search", elastic_index,
                          Payload(parse(SearchHandler(tasks[r].params)))>>>>
        /\ tasks[r].pc = "done" =>
              tasks[r].result
                 = _parseElasticResponse(tasks[r].response, Kwargs(tasks[r].params))
        /\ \A q \in Requests :
              (q # r /\ tasks[q].handler # 0 /\ tasks[r].handler # 0)
                 => tasks[q].handler # tasks[r].handler

\* C26's case: request 2 was started while request 1 awaited the engine,
\* with other parameters, and request 1 then got its response while request
\* 2 still awaits.
C26_Witness ==
    /\ tasks[1].pc = "done"
    /\ tasks[2].pc = "awaiting"
    /\ tasks[1].handler = 1
    /\ tasks[2].handler = 2
    /\ tasks[1].params # tasks[2].params
    /\ tasks[1].payload # tasks[2].payload
    /\ Len(tasks[1].response[2]["hits"][2]["hits"][2]) = 1

-----------------------------------------------------------------------------
\* The value of the last update call for the three keys, None without one.
RECURSIVE LastStored(_, _, _, _, _)
LastStored(log, n, src, title, desc) ==
    IF n = 0 THEN None
    ELSE IF log[n][1] = src /\ log[n][2] = title /\ log[n][3] = desc THEN log[n][4]
    ELSE LastStored(log, n - 1, src, title, desc)

\* C28: after any sequence of update calls (load_parquet makes them, one for
\* each row whose group is not in the cache), get(src, title, desc) returns
\* the group most recently stored by update for these three keys, and None
\* only when there was no update for them, the first update for a new source
\* included; so two rows of one file with the same source, title and
\* description are given the same group.
C28_GetReturnsStored ==
    /\ \A src \in Sources, title \in Titles, desc \in Descriptions :
          get(heap[1], src, title, desc)
             = LastStored(tasks.log, Len(tasks.log), src, title, desc)
    /\ \A i, j \in DOMAIN tasks.records :
          (/\ tasks.records[i][1] = tasks.records[j][1]
           /\ tasks.records[i][2] = tasks.records[j][2]
           /\ tasks.records[i][3] = tasks.records[j][3])
             => tasks.records[i][4] = tasks.records[j][4]

-----------------------------------------------------------------------------
\* Whether entry is in the list the record holds under _ontology.
Held(entry) ==
    /\ Has(engine.doc, "_ontology")
    /\ Get(engine.doc, "_ontology") # None
    /\ \E i \in DOMAIN Get(engine.doc, "_ontology")[2] :
          Get(engine.doc, "_ontology")[2][i] = entry

\* C29: when two add-ontology requests for one record, handled together and
\* interleaved at their awaits, have both completed, the record's _ontology
\* list holds both new entries besides every entry it held before.
C29_BothEntriesKept ==
    (\A r \in Requests : tasks[r].pc = "done") =>
        /\ \A r \in Requests : Held(tasks[r].body)
        /\ \A i \in DOMAIN _check_record_id(engine.before)[2] :
              Held(_check_record_id(engine.before)[2][i])

-----------------------------------------------------------------------------
\* The status the job document has now.
JobStatus == engine.statuses[Len(engine.statuses)]

\* C30: the status of an ingest job only moves pending -> active ->
\* (ingested | failed): active is written before any ingestion work, a
\* terminal status is written once, together with finished, when ingestion
\* completes or raises, the status does not change after it, and an
\* exception raised in the task ends in failed, a run without one in
\* ingested.
C30_StatusLifecycle ==
    /\ \/ IsPrefix(engine.statuses, <<Str("pending"), Str("active"), Str("ingested")>>)
       \/ IsPrefix(engine.statuses, <<Str("pending"), Str("active"), Str("failed")>>)
    /\ tasks.pc # "none" =>
          ("finished" \in DOMAIN engine.doc
              <=> JobStatus \in {Str("ingested"), Str("failed")})
    /\ tasks.worked => engine.statuses[Len(engine.statuses)] # Str("pending")
    /\ tasks.pc \in {"returned", "raised"} =>
          JobStatus = (IF tasks.excepted THEN Str("failed") ELSE Str("ingested"))

=============================================================================
